---- MODULE Spec2Model ----
(***************************************************************************)
(* Blackholio server-go: the reducers (reducers/blackholio.go), the game   *)
(* logic helpers (package logic), the constants and configuration (package *)
(* constants) and the table types (package tables), as a state machine     *)
(* over the host's tables.                                                 *)
(*                                                                         *)
(* float32 values are fixed-point integers: Scale steps per unit.          *)
(* Timestamps and durations are integers in microseconds as in             *)
(* tables.Timestamp.  The host database is the transactional table store   *)
(* the reducers are written against: a lookup of a missing row fails, an   *)
(* insert assigns the auto_inc key, and a reducer that returns an          *)
(* ErrorResult leaves the tables as they were.  A player row is its         *)
(* player_id, which the host assigns once per identity; the name is left   *)
(* out.  The circle and food tables are indexed by the entity the row was  *)
(* inserted together with; the field EntityID of a row is the entity_id    *)
(* column as the code wrote it.                                            *)
(***************************************************************************)
EXTENDS Integers, Sequences, FiniteSets, TLC

VARIABLES
    entity,             \* entity table: EntityID -> [Position, Mass]
    circle,             \* circle table: EntityID -> [PlayerID, Direction, Speed, LastSplitTime]
    food,               \* food table: EntityID -> [EntityID]
    player,             \* player table: Identity -> [PlayerID]
    logged_out_player,  \* logged_out_player table: Identity -> [PlayerID]
    nextEntityID,       \* auto_inc sequence of entity.entity_id
    timers,             \* scheduled reducers the host holds (ScheduleReducer)
    nextScheduledID,    \* auto_inc sequence of the timers' scheduled_id
    now,                \* the host clock, ctx.Timestamp of the next call
    globalConfig,       \* constants.globalConfig
    moveTicks,          \* move ticks run so far
    last,               \* the last reducer call: name, arguments, result, computed timers
    globalRegistry,     \* reducers.globalRegistry: reducers, byID, nextID, mu
    goroutines          \* the callers of the registry: where each is in Register

vars == <<entity, circle, food, player, logged_out_player, nextEntityID,
          timers, nextScheduledID, now, globalConfig, moveTicks, last,
          globalRegistry, goroutines>>

tables == <<entity, circle, food, player, logged_out_player, nextEntityID,
            timers, nextScheduledID, moveTicks, globalRegistry, goroutines>>

----------------------------------------------------------------------------
(* Bounds of the model *)

MaxEntityID == 3        \* entity ids the host hands out
MaxScheduledID == 2     \* timers the host accepts
NumIdentities == 1      \* clients
MaxMoveTicks == 1       \* move ticks the host runs
NumGoroutines == 2      \* goroutines that call the registry
MaxRegistrations == 3   \* Register calls made in all
MaxHandleResultCalls == 2   \* HandleResult calls made in all
Uint64Modulus == 1073741824  \* the values a uint64 holds: 2^64 in the code

Identities == 1..NumIdentities

----------------------------------------------------------------------------
(* Constants of package constants *)

Scale == 1000                       \* fixed-point steps per 1.0 of a float32
MicrosPerSecond == 1000000

START_PLAYER_MASS == 15
START_PLAYER_SPEED == 10
FOOD_MASS_MIN == 2
FOOD_MASS_MAX == 4
TARGET_FOOD_COUNT == 600
MINIMUM_SAFE_MASS_RATIO == 850              \* 0.85
MIN_OVERLAP_PCT_TO_CONSUME == 100           \* 0.1
MIN_MASS_TO_SPLIT == START_PLAYER_MASS * 2
MAX_CIRCLES_PER_PLAYER == 16
SPLIT_RECOMBINE_DELAY_SEC == 5000           \* 5.0
SPLIT_GRAV_PULL_BEFORE_RECOMBINE_SEC == 2000 \* 2.0
ALLOWED_SPLIT_CIRCLE_OVERLAP_PCT == 900     \* 0.9
SELF_COLLISION_SPEED == 50                  \* 0.05
DEFAULT_WORLD_SIZE == 1000

DefaultConfiguration ==
    [ StartPlayerMass |-> START_PLAYER_MASS,
      StartPlayerSpeed |-> START_PLAYER_SPEED,
      FoodMassMin |-> FOOD_MASS_MIN,
      FoodMassMax |-> FOOD_MASS_MAX,
      TargetFoodCount |-> TARGET_FOOD_COUNT,
      MinimumSafeMassRatio |-> MINIMUM_SAFE_MASS_RATIO,
      MinOverlapPctToConsume |-> MIN_OVERLAP_PCT_TO_CONSUME,
      MinMassToSplit |-> MIN_MASS_TO_SPLIT,
      MaxCirclesPerPlayer |-> MAX_CIRCLES_PER_PLAYER,
      SplitRecombineDelaySec |-> SPLIT_RECOMBINE_DELAY_SEC,
      SplitGravPullBeforeRecombineSec |-> SPLIT_GRAV_PULL_BEFORE_RECOMBINE_SEC,
      AllowedSplitCircleOverlapPct |-> ALLOWED_SPLIT_CIRCLE_OVERLAP_PCT,
      SelfCollisionSpeed |-> SELF_COLLISION_SPEED,
      DefaultWorldSize |-> DEFAULT_WORLD_SIZE ]

\* Configuration.Validate: TRUE iff it returns nil.  The timer and
\* performance settings are left at their defaults, which pass.
Validate(c) ==
    /\ c.StartPlayerMass # 0
    /\ c.StartPlayerSpeed # 0
    /\ c.FoodMassMin # 0
    /\ ~(c.FoodMassMax < c.FoodMassMin)
    /\ c.TargetFoodCount # 0
    /\ ~(c.MinimumSafeMassRatio <= 0 \/ c.MinimumSafeMassRatio > Scale)
    /\ ~(c.MinOverlapPctToConsume <= 0 \/ c.MinOverlapPctToConsume > Scale)
    /\ c.MaxCirclesPerPlayer # 0
    /\ ~(c.MaxCirclesPerPlayer > 64)
    /\ ~(c.SplitRecombineDelaySec <= 0)
    /\ ~(c.SplitGravPullBeforeRecombineSec < 0)
    /\ ~(c.SplitGravPullBeforeRecombineSec > c.SplitRecombineDelaySec)
    /\ ~(c.AllowedSplitCircleOverlapPct <= 0 \/ c.AllowedSplitCircleOverlapPct > Scale)
    /\ ~(c.SelfCollisionSpeed < 0 \/ c.SelfCollisionSpeed > Scale)
    /\ ~(c.DefaultWorldSize < 100)
    /\ ~(c.DefaultWorldSize > 100000)
    /\ ~(c.MinMassToSplit # c.StartPlayerMass * 2)

\* The configurations the module is loaded with (LoadFromEnvironment over
\* the defaults): the split settings an operator can set.
LoadedConfigurations ==
    { [DefaultConfiguration EXCEPT !.TargetFoodCount = 1, !.FoodMassMin = 4],
      [DefaultConfiguration EXCEPT
          !.TargetFoodCount = 1,
          !.StartPlayerMass = 3,
          !.MinMassToSplit = 6,
          !.MaxCirclesPerPlayer = 3,
          !.SplitRecombineDelaySec = 2500] }

----------------------------------------------------------------------------
(* package types: DbVector2, in fixed point *)

Abs(a) == IF a < 0 THEN -a ELSE a

\* the float32 value that is not a number
NaN == -2147483647

\* a / b of two float32 values, rounded toward zero; 0 / 0 is NaN
FDiv(a, b) ==
    IF a = NaN \/ b = NaN \/ (a = 0 /\ b = 0) THEN NaN
    ELSE IF (a < 0) = (b < 0) THEN Abs(a) \div Abs(b) ELSE -(Abs(a) \div Abs(b))

\* a * b of two fixed-point values
FMul(a, b) == IF a = NaN \/ b = NaN THEN NaN ELSE FDiv(a * b, Scale)

\* a + b of two float32 values
FAdd(a, b) == IF a = NaN \/ b = NaN THEN NaN ELSE a + b

\* a - b of two float32 values
FSub(a, b) == IF a = NaN \/ b = NaN THEN NaN ELSE a - b

\* a / b of two fixed-point values
FQuot(a, b) == IF a = NaN \/ b = NaN THEN NaN ELSE FDiv(a * Scale, b)

\* floor of the square root
RECURSIVE SqrtSearch(_, _, _)
SqrtSearch(n, lo, hi) ==
    IF lo >= hi THEN lo
    ELSE LET mid == (lo + hi + 1) \div 2
         IN IF mid * mid <= n THEN SqrtSearch(n, mid, hi)
            ELSE SqrtSearch(n, lo, mid - 1)

Sqrt(n) == SqrtSearch(n, 0, 46340)

\* the largest coordinate difference whose square is computed; beyond it
\* two entities are FarApart
NearLimit == 30 * Scale
FarApart == 2 * NearLimit * NearLimit

\* DbVector2
Vec(x, y) == [X |-> x, Y |-> y]

\* types.Zero
Zero == Vec(0, 0)

\* DbVector2.Add
VecAdd(v, w) == [X |-> FAdd(v.X, w.X), Y |-> FAdd(v.Y, w.Y)]

\* DbVector2.Sub
VecSub(v, w) == [X |-> FSub(v.X, w.X), Y |-> FSub(v.Y, w.Y)]

\* DbVector2.Mul
VecMul(v, scalar) == [X |-> FMul(v.X, scalar), Y |-> FMul(v.Y, scalar)]

\* DbVector2.Div: the zero vector when scalar is zero
VecDiv(v, scalar) ==
    IF scalar = 0 THEN Zero
    ELSE [X |-> FQuot(v.X, scalar), Y |-> FQuot(v.Y, scalar)]

\* DbVector2.SqrMagnitude, in squared fixed-point steps
SqrMagnitude(v) ==
    IF Abs(v.X) > NearLimit \/ Abs(v.Y) > NearLimit THEN FarApart
    ELSE v.X * v.X + v.Y * v.Y

\* DbVector2.Magnitude
Magnitude(v) == Sqrt(SqrMagnitude(v))

\* DbVector2.Normalized: the zero vector when the magnitude is zero
Normalized(v) == IF Magnitude(v) = 0 THEN Zero ELSE VecDiv(v, Magnitude(v))

----------------------------------------------------------------------------
(* package tables: Timestamp and TimeDuration, in microseconds *)

\* Timestamp.Add
TimestampAdd(t, duration) == t + duration

\* a - b of two uint64 values
Uint64Sub(a, b) == (a - b) % Uint64Modulus

\* Timestamp.Sub without the comparison
TimestampSubUnguarded(t, other) == Uint64Sub(t, other)

\* Timestamp.Sub: zero when other is later
TimestampSub(t, other) == IF t >= other THEN Uint64Sub(t, other) ELSE 0

\* tables.NewTimeDurationFromDuration(time.Duration(sec) * time.Second):
\* the conversion of the float32 seconds to time.Duration drops the fraction
DurationFromSeconds(sec) == (sec \div Scale) * MicrosPerSecond

\* the comparison with > for >=
SecondsMoreThan(micros, sec) == micros > sec * (MicrosPerSecond \div Scale)

\* TimeDuration.ToDuration().Seconds() >= float64(sec)
SecondsAtLeast(micros, sec) == micros >= sec * (MicrosPerSecond \div Scale)

----------------------------------------------------------------------------
(* The host's tables *)

\* f with key k removed
Remove(f, k) == [x \in (DOMAIN f) \ {k} |-> f[x]]

\* f with key k set to v
Put(f, k, v) == [x \in (DOMAIN f) \cup {k} |-> IF x = k THEN v ELSE f[x]]

EmptyTable == [x \in {} |-> 0]

RECURSIVE SortedSeq(_)
SortedSeq(S) ==
    IF S = {} THEN <<>>
    ELSE LET m == CHOOSE x \in S : \A y \in S : x <= y
         IN <<m>> \o SortedSeq(S \ {m})

\* DatabaseContext.GetCirclesByPlayer: the player's circles in key order
GetCirclesByPlayer(c, playerID) ==
    SortedSeq({id \in DOMAIN c : c[id].PlayerID = playerID})

\* the dependent rows removed and the entity row left in place
DestroyDependents(tb, entityID) ==
    [ entity |-> tb.entity,
      circle |-> Remove(tb.circle, entityID),
      food |-> Remove(tb.food, entityID) ]

\* DatabaseContext.DeleteEntity behind logic.DestroyEntity: the food row, the
\* circle row, then the entity row (logic.DestroyEntityIDs)
DestroyEntity(tb, entityID) ==
    [ entity |-> Remove(tb.entity, entityID),
      circle |-> Remove(tb.circle, entityID),
      food |-> Remove(tb.food, entityID) ]

RECURSIVE DestroyAll(_, _, _)
DestroyAll(tb, ids, i) ==
    IF i > Len(ids) THEN tb
    ELSE DestroyAll(DestroyEntity(tb, ids[i]), ids, i + 1)

\* GetConfig: the world configuration row
WorldSize == DEFAULT_WORLD_SIZE

\* the player_id the host assigns to an identity
PlayerIDOf(identity) == identity


\* what a reducer call leaves behind: its name, arguments and result, the
\* timers it built with ScheduleConsumeEntity, the entities CircleRecombine
\* found ready, and the (original, new) pairs PlayerSplit made
Call(op, a, b, result) ==
    [op |-> op, a |-> a, b |-> b, result |-> result,
     computed |-> <<>>, recombining |-> <<>>, split |-> <<>>]

Failed(op) ==
    /\ last' = Call(op, 0, 0, "error")
    /\ UNCHANGED <<tables, now, globalConfig>>

----------------------------------------------------------------------------
(* package constants: formulas *)

\* MassToRadius: sqrt(mass), in fixed point
MassToRadius(mass) == Sqrt(mass * Scale * Scale)

\* MassToMaxMoveSpeed: 2 * startSpeed / (1 + sqrt(mass / startMass))
MassToMaxMoveSpeed(mass) ==
    LET ratio == FDiv(mass * Scale, globalConfig.StartPlayerMass)
        sqrtRatio == Sqrt(ratio * Scale)
    IN FDiv(2 * globalConfig.StartPlayerSpeed * Scale * Scale, Scale + sqrtRatio)

----------------------------------------------------------------------------
(* package logic *)

\* SpawnCircleAt without the timestamp: LastSplitTime left at zero
SpawnCircleAtEpoch(playerID, mass, position, timestamp) ==
    [ entity |-> [Position |-> position, Mass |-> mass],
      circle |-> [EntityID |-> 0, PlayerID |-> playerID,
                  Direction |-> Vec(0, Scale), Speed |-> 0, LastSplitTime |-> 0] ]

\* SpawnCircleAt: the entity and circle rows of a new circle.  The circle is
\* built from entity.EntityID while that is still NewEntity's placeholder 0.
SpawnCircleAt(playerID, mass, position, timestamp) ==
    [ entity |-> [Position |-> position, Mass |-> mass],
      circle |-> [EntityID |-> 0, PlayerID |-> playerID,
                  Direction |-> Vec(0, Scale), Speed |-> 0,
                  LastSplitTime |-> timestamp] ]

\* SpawnPlayerInitialCircle: x and y are the two RangeFloat32 draws
SpawnPlayerInitialCircle(playerID, x, y, timestamp) ==
    SpawnCircleAt(playerID, START_PLAYER_MASS, Vec(x, y), timestamp)

\* the draws RangeFloat32(rng, r, worldSize - r) can return
InSpawnRange(v, mass) ==
    /\ v >= MassToRadius(mass)
    /\ v < WorldSize * Scale - MassToRadius(mass)

\* CanPlayerSplit with the threshold MinMassToSplit for MinMassToSplit * 2
CanPlayerSplitAtMinMass(mass, currentCircleCount) ==
    IF currentCircleCount >= globalConfig.MaxCirclesPerPlayer
    THEN FALSE
    ELSE mass >= globalConfig.MinMassToSplit

\* CanPlayerSplit
CanPlayerSplit(mass, currentCircleCount) ==
    IF currentCircleCount >= globalConfig.MaxCirclesPerPlayer
    THEN FALSE
    ELSE mass >= globalConfig.MinMassToSplit * 2

\* the half rounded up for the half rounded down
CalculateHalfMassUp(originalMass) == (originalMass + 1) \div 2

\* CalculateHalfMass
CalculateHalfMass(originalMass) == originalMass \div 2

\* ScheduleConsumeEntity
ScheduleConsumeEntity(consumerID, consumedID, timestamp) ==
    [ Reducer |-> "ConsumeEntity", ScheduledAt |-> timestamp,
      ConsumerEntityID |-> consumerID, ConsumedEntityID |-> consumedID ]

\* IsOverlapping with the radius of a taken for both entities
IsOverlappingOneSided(a, b) ==
    LET distanceSq == SqrMagnitude(VecSub(a.Position, b.Position))
        radiusSum == FMul(MassToRadius(a.Mass) + MassToRadius(a.Mass),
                          Scale - globalConfig.MinOverlapPctToConsume)
    IN distanceSq <= radiusSum * radiusSum

\* IsOverlappingRust: the larger radius as the threshold
IsOverlappingRust(a, b) ==
    LET distanceSq == SqrMagnitude(VecSub(a.Position, b.Position))
        radiusA == MassToRadius(a.Mass)
        radiusB == MassToRadius(b.Mass)
        maxRadius == IF radiusA >= radiusB THEN radiusA ELSE radiusB
    IN distanceSq <= maxRadius * maxRadius

\* IsOverlapping
IsOverlapping(a, b) ==
    LET distanceSq == SqrMagnitude(VecSub(a.Position, b.Position))
        radiusSum == FMul(MassToRadius(a.Mass) + MassToRadius(b.Mass),
                          Scale - globalConfig.MinOverlapPctToConsume)
    IN distanceSq <= radiusSum * radiusSum

\* the mass ratio not looked at
CanConsumeAnyMass(consumerMass, consumedMass) == consumerMass # 0

\* CanConsumeEntity: consumedMass / consumerMass < MinimumSafeMassRatio
CanConsumeEntity(consumerMass, consumedMass) ==
    /\ consumerMass # 0
    /\ consumedMass * Scale < globalConfig.MinimumSafeMassRatio * consumerMass

\* ShouldCircleDecay: against the package constant, not the configuration
ShouldCircleDecay(mass) == mass > START_PLAYER_MASS

\* CalculateDecayedMass: uint32(float32(mass) * 0.99); the float32 product
\* truncates to the same integer as mass * 99 / 100 for masses below 100000
CalculateDecayedMass(originalMass) == (originalMass * 99) \div 100

\* the bounding box shrunk to the center of the entity
EntityCenter(e) ==
    [ MinX |-> e.Position.X, MinY |-> e.Position.Y,
      MaxX |-> e.Position.X, MaxY |-> e.Position.Y ]

\* EntityBounds: the bounding box of an entity
EntityBounds(e) ==
    LET radius == MassToRadius(e.Mass)
    IN [ MinX |-> e.Position.X - radius, MinY |-> e.Position.Y - radius,
         MaxX |-> e.Position.X + radius, MaxY |-> e.Position.Y + radius ]

\* BoundsOverlap: the AABB test
BoundsOverlap(a, b) ==
    /\ a.MinX <= b.MaxX /\ a.MaxX >= b.MinX
    /\ a.MinY <= b.MaxY /\ a.MaxY >= b.MinY

\* FastCollisionFilter: the candidates, given by id, whose box meets the
\* box of the entity id, the entity itself skipped
FastCollisionFilter(ent, id, candidates) ==
    SelectSeq(candidates,
              LAMBDA c : c # id /\ BoundsOverlap(EntityBounds(ent[id]),
                                                 EntityBounds(ent[c])))

\* Clamp with the upper bound left out
ClampFromBelow(value, min, max) ==
    IF value < min THEN min ELSE value

\* Clamp: a NaN is below no minimum and above no maximum
Clamp(value, min, max) ==
    IF value = NaN THEN value
    ELSE IF value < min THEN min ELSE IF value > max THEN max ELSE value

\* ClampPositionToWorld
ClampPositionToWorld(position, radius, worldSize) ==
    Vec(Clamp(position.X, radius, worldSize * Scale - radius),
        Clamp(position.Y, radius, worldSize * Scale - radius))

\* UpdateCirclePosition
UpdateCirclePosition(e, direction, deltaTime, worldSize) ==
    LET speed == MassToMaxMoveSpeed(e.Mass)
        velocity == VecMul(direction, FMul(speed, deltaTime))
        newPosition == VecAdd(e.Position, velocity)
    IN ClampPositionToWorld(newPosition, MassToRadius(e.Mass), worldSize)

\* the difference and squared distance CalculateGravityPull and
\* CalculateSeparationForce start from: (1, 0) at distance 1 for two
\* entities closer than 0.0001 squared
SplitDiff(entityA, entityB) ==
    LET diff == VecSub(entityA.Position, entityB.Position)
    IN IF SqrMagnitude(diff) <= 100
       THEN [diff |-> Vec(Scale, 0), distanceSqr |-> Scale * Scale]
       ELSE [diff |-> diff, distanceSqr |-> SqrMagnitude(diff)]

\* CalculateGravityPull without the test of the pull window
CalculateGravityPullAnyTime(entityA, entityB, timeSinceSplit, circleCount) ==
    LET remaining == globalConfig.SplitRecombineDelaySec - timeSinceSplit
        timeBeforeRecombining == IF remaining > 0 THEN remaining ELSE 0
        d == SplitDiff(entityA, entityB)
        radiusSum == MassToRadius(entityA.Mass) + MassToRadius(entityB.Mass)
    IN IF d.distanceSqr > radiusSum * radiusSum
       THEN LET gravityMultiplier ==
                    Scale - FDiv(timeBeforeRecombining * Scale,
                                 globalConfig.SplitGravPullBeforeRecombineSec)
                distance == Sqrt(d.distanceSqr)
                vec == VecDiv(VecMul(VecMul(VecMul(Normalized(d.diff),
                                                   radiusSum - distance),
                                            gravityMultiplier), 50),
                              circleCount * Scale)
            IN VecDiv(vec, 2 * Scale)
       ELSE Zero

\* CalculateGravityPull; timeSinceSplit in fixed-point seconds
CalculateGravityPull(entityA, entityB, timeSinceSplit, circleCount) ==
    LET remaining == globalConfig.SplitRecombineDelaySec - timeSinceSplit
        timeBeforeRecombining == IF remaining > 0 THEN remaining ELSE 0
        d == SplitDiff(entityA, entityB)
        radiusSum == MassToRadius(entityA.Mass) + MassToRadius(entityB.Mass)
    IN IF timeBeforeRecombining > globalConfig.SplitGravPullBeforeRecombineSec
       THEN Zero
       ELSE IF d.distanceSqr > radiusSum * radiusSum
       THEN LET gravityMultiplier ==
                    FSub(Scale, FQuot(timeBeforeRecombining,
                                      globalConfig.SplitGravPullBeforeRecombineSec))
                distance == Sqrt(d.distanceSqr)
                vec == VecDiv(VecMul(VecMul(VecMul(Normalized(d.diff),
                                                   radiusSum - distance),
                                            gravityMultiplier), 50),
                              circleCount * Scale)
            IN VecDiv(vec, 2 * Scale)
       ELSE Zero

\* CalculateSeparationForce
CalculateSeparationForce(entityA, entityB) ==
    LET d == SplitDiff(entityA, entityB)
        radiusSum == MassToRadius(entityA.Mass) + MassToRadius(entityB.Mass)
        radiusSumMultiplied == FMul(radiusSum, globalConfig.AllowedSplitCircleOverlapPct)
    IN IF d.distanceSqr < radiusSumMultiplied * radiusSumMultiplied
       THEN LET distance == Sqrt(d.distanceSqr)
                vec == VecMul(VecMul(Normalized(d.diff), radiusSum - distance),
                              globalConfig.SelfCollisionSpeed)
            IN VecDiv(vec, 2 * Scale)
       ELSE Zero

----------------------------------------------------------------------------
(* package reducers: ReducerRegistry *)

Goroutines == 1..NumGoroutines

\* the names reducers are registered under
ReducerNames == {"test_reducer", "reducer1"}

\* the ReducerFunction values the callers hold: for each name, two reducers
\* with different handlers
ReducerFunctions == {[Name |-> n, Handler |-> h] : n \in ReducerNames, h \in {"f", "g"}}

\* the nil ReducerFunction
NoReducer == [Name |-> "", Handler |-> ""]

\* &ReducerRegistry{reducers: make(...), byID: make(...), nextID: 0}; mu is
\* the goroutine that holds the lock, 0 when it is free
NewRegistry == [reducers |-> EmptyTable, byID |-> EmptyTable, nextID |-> 0, mu |-> 0]

\* no goroutine is in Register, and Register has returned nothing yet
IdleGoroutines ==
    [ calls |-> [g \in Goroutines |-> [pc |-> "idle", reducer |-> NoReducer, id |-> 0]],
      returned |-> <<>> ]

\* the frame of a step of the registry
RegistryStep(op, a) ==
    /\ last' = Call(op, a, 0, "ok")
    /\ UNCHANGED <<entity, circle, food, player, logged_out_player, nextEntityID,
                   timers, nextScheduledID, now, globalConfig, moveTicks>>

\* a goroutine calls Register(reducer)
RegisterCall(g, reducer) ==
    /\ goroutines.calls[g].pc = "idle"
    /\ Len(goroutines.returned)
         + Cardinality({h \in Goroutines : goroutines.calls[h].pc # "idle"})
         < MaxRegistrations
    /\ goroutines' = [goroutines EXCEPT !.calls[g] =
                         [pc |-> "Lock", reducer |-> reducer, id |-> 0]]
    /\ UNCHANGED globalRegistry
    /\ RegistryStep("Register", g)

\* r.mu.Lock() returning although another goroutine holds the lock
LockNotExclusive(g) ==
    /\ goroutines.calls[g].pc = "Lock"
    /\ globalRegistry' = [globalRegistry EXCEPT !.mu = g]
    /\ goroutines' = [goroutines EXCEPT !.calls[g].pc = "id"]
    /\ RegistryStep("Lock", g)

\* r.mu.Lock()
Lock(g) ==
    /\ goroutines.calls[g].pc = "Lock"
    /\ globalRegistry.mu = 0
    /\ globalRegistry' = [globalRegistry EXCEPT !.mu = g]
    /\ goroutines' = [goroutines EXCEPT !.calls[g].pc = "id"]
    /\ RegistryStep("Lock", g)

\* id := r.nextID
ReadNextID(g) ==
    /\ goroutines.calls[g].pc = "id"
    /\ goroutines' = [goroutines EXCEPT !.calls[g].id = globalRegistry.nextID,
                                        !.calls[g].pc = "nextID++"]
    /\ UNCHANGED globalRegistry
    /\ RegistryStep("id", g)

\* r.nextID++
IncrementNextID(g) ==
    /\ goroutines.calls[g].pc = "nextID++"
    /\ globalRegistry' = [globalRegistry EXCEPT !.nextID = @ + 1]
    /\ goroutines' = [goroutines EXCEPT !.calls[g].pc = "reducers"]
    /\ RegistryStep("nextID++", g)

\* r.reducers[reducer.Name()] = reducer
StoreByName(g) ==
    /\ goroutines.calls[g].pc = "reducers"
    /\ globalRegistry' = [globalRegistry EXCEPT !.reducers =
                             Put(@, goroutines.calls[g].reducer.Name,
                                 goroutines.calls[g].reducer)]
    /\ goroutines' = [goroutines EXCEPT !.calls[g].pc = "byID"]
    /\ RegistryStep("reducers", g)

\* r.byID[id] = reducer
StoreByID(g) ==
    /\ goroutines.calls[g].pc = "byID"
    /\ globalRegistry' = [globalRegistry EXCEPT !.byID =
                             Put(@, goroutines.calls[g].id,
                                 goroutines.calls[g].reducer)]
    /\ goroutines' = [goroutines EXCEPT !.calls[g].pc = "return"]
    /\ RegistryStep("byID", g)

\* return id, with the deferred r.mu.Unlock()
RegisterReturn(g) ==
    /\ goroutines.calls[g].pc = "return"
    /\ globalRegistry' = [globalRegistry EXCEPT
                             !.mu = IF @ = g THEN 0 ELSE @]
    /\ goroutines' = [goroutines EXCEPT
                         !.calls[g] = [pc |-> "idle", reducer |-> NoReducer, id |-> 0],
                         !.returned = Append(@, [id |-> goroutines.calls[g].id,
                                                 reducer |-> goroutines.calls[g].reducer])]
    /\ RegistryStep("return", g)

\* GetByName under r.mu.RLock(): last.computed holds <<reducer, exists>>
GetByName(name) ==
    /\ globalRegistry.mu = 0
    /\ last' = [Call("GetByName", 0, 0, "ok") EXCEPT
                  !.computed = IF name \in DOMAIN globalRegistry.reducers
                               THEN <<globalRegistry.reducers[name], TRUE>>
                               ELSE <<NoReducer, FALSE>>]
    /\ UNCHANGED <<tables, now, globalConfig>>

\* GetByID under r.mu.RLock(): last.computed holds <<reducer, exists>>
GetByID(id) ==
    /\ globalRegistry.mu = 0
    /\ last' = [Call("GetByID", id, 0, "ok") EXCEPT
                  !.computed = IF id \in DOMAIN globalRegistry.byID
                               THEN <<globalRegistry.byID[id], TRUE>>
                               ELSE <<NoReducer, FALSE>>]
    /\ UNCHANGED <<tables, now, globalConfig>>

----------------------------------------------------------------------------
(* Reducers *)

Init ==
    /\ entity = EmptyTable
    /\ circle = EmptyTable
    /\ food = EmptyTable
    /\ player = EmptyTable
    /\ logged_out_player = EmptyTable
    /\ nextEntityID = 1
    /\ timers = {}
    /\ nextScheduledID = 1
    /\ now = 0
    /\ moveTicks = 0
    /\ globalRegistry = NewRegistry
    /\ goroutines = IdleGoroutines
    /\ globalConfig \in {c \in LoadedConfigurations : Validate(c)}
    /\ last = Call("Init", 0, 0, "ok")

\* ConnectReducer
ConnectReducer(sender) ==
    IF sender \in DOMAIN player
    THEN Failed("Connect")              \* InsertPlayer: duplicate identity
    ELSE
      /\ IF sender \in DOMAIN logged_out_player
         THEN /\ player' = Put(player, sender, logged_out_player[sender])
              /\ logged_out_player' = Remove(logged_out_player, sender)
         ELSE /\ player' = Put(player, sender, [PlayerID |-> PlayerIDOf(sender)])
              /\ UNCHANGED logged_out_player
      /\ last' = Call("Connect", 0, 0, "ok")
      /\ UNCHANGED <<entity, circle, food, nextEntityID, timers, nextScheduledID,
                     now, globalConfig, moveTicks,
                     globalRegistry, goroutines>>

\* DisconnectReducer with the player's circles left in the arena
DisconnectKeepingCircles(sender) ==
    IF sender \notin DOMAIN player
    THEN Failed("Disconnect")
    ELSE /\ logged_out_player' = Put(logged_out_player, sender, player[sender])
         /\ player' = Remove(player, sender)
         /\ last' = Call("Disconnect", 0, 0, "ok")
         /\ UNCHANGED <<entity, circle, food, nextEntityID, timers,
                        nextScheduledID, now, globalConfig, moveTicks,
                        globalRegistry, goroutines>>

\* DisconnectReducer
DisconnectReducer(sender) ==
    IF sender \notin DOMAIN player
    THEN Failed("Disconnect")
    ELSE
      LET circles == GetCirclesByPlayer(circle, player[sender].PlayerID)
          tb == DestroyAll([entity |-> entity, circle |-> circle, food |-> food],
                           circles, 1)
      IN /\ entity' = tb.entity
         /\ circle' = tb.circle
         /\ food' = tb.food
         /\ logged_out_player' = Put(logged_out_player, sender, player[sender])
         /\ player' = Remove(player, sender)
         /\ last' = Call("Disconnect", 0, 0, "ok")
         /\ UNCHANGED <<nextEntityID, timers, nextScheduledID, now, globalConfig,
                        moveTicks,
                        globalRegistry, goroutines>>

\* SuicideReducer: every circle of the player destroyed, the player stays
SuicideReducer(sender) ==
    IF sender \notin DOMAIN player
    THEN Failed("Suicide")
    ELSE
      LET circles == GetCirclesByPlayer(circle, player[sender].PlayerID)
          tb == DestroyAll([entity |-> entity, circle |-> circle, food |-> food],
                           circles, 1)
      IN /\ entity' = tb.entity
         /\ circle' = tb.circle
         /\ food' = tb.food
         /\ last' = Call("Suicide", 0, 0, "ok")
         /\ UNCHANGED <<player, logged_out_player, nextEntityID, timers,
                        nextScheduledID, now, globalConfig, moveTicks,
                        globalRegistry, goroutines>>

\* the spawn EnterGameReducer and RespawnReducer share: GetPlayer,
\* SpawnPlayerInitialCircle, InsertEntity, InsertCircle
SpawnInitial(op, sender, x, y) ==
    IF sender \notin DOMAIN player
    THEN Failed(op)
    ELSE
      LET s == SpawnPlayerInitialCircle(player[sender].PlayerID, x, y, now)
      IN /\ nextEntityID <= MaxEntityID
         /\ entity' = Put(entity, nextEntityID, s.entity)
         /\ circle' = Put(circle, nextEntityID, s.circle)
         /\ nextEntityID' = nextEntityID + 1
         /\ last' = Call(op, 0, 0, "ok")
         /\ UNCHANGED <<food, player, logged_out_player, timers,
                        nextScheduledID, now, globalConfig, moveTicks,
                        globalRegistry, goroutines>>

\* EnterGameReducer
EnterGameReducer(sender, x, y) == SpawnInitial("EnterGame", sender, x, y)

\* RespawnReducer
RespawnReducer(sender, x, y) == SpawnInitial("Respawn", sender, x, y)

\* the loop of PlayerSplitReducer over the circles read at its start; st is
\* the tables and circleCount as the loop has left them so far
RECURSIVE SplitLoop(_, _, _, _, _)
SplitLoop(circles, i, st, playerID, timestamp) ==
    IF i > Len(circles) THEN st
    ELSE
      LET id == circles[i]
      IN IF id \notin DOMAIN st.entity
         THEN SplitLoop(circles, i + 1, st, playerID, timestamp)
         ELSE
           LET e == st.entity[id]
           IN IF CanPlayerSplit(e.Mass, st.circleCount)
              THEN
                LET halfMass == CalculateHalfMass(e.Mass)
                    newPosition == VecAdd(e.Position, circle[id].Direction)
                    s == SpawnCircleAt(playerID, halfMass, newPosition, timestamp)
                    newID == st.nextEntityID
                    st1 == [ entity |-> Put(Put(st.entity, newID, s.entity), id,
                                            [e EXCEPT !.Mass = e.Mass - halfMass]),
                             circle |-> Put(Put(st.circle, newID, s.circle), id,
                                            [circle[id] EXCEPT !.LastSplitTime = timestamp]),
                             nextEntityID |-> newID + 1,
                             circleCount |-> st.circleCount + 1,
                             split |-> Append(st.split, <<id, newID>>) ]
                IN IF st1.circleCount >= globalConfig.MaxCirclesPerPlayer
                   THEN st1
                   ELSE SplitLoop(circles, i + 1, st1, playerID, timestamp)
              ELSE SplitLoop(circles, i + 1, st, playerID, timestamp)

\* the timer PlayerSplitReducer schedules
RecombineTimer(playerID, timestamp) ==
    [ ScheduledID |-> nextScheduledID, Reducer |-> "CircleRecombine",
      PlayerID |-> playerID,
      ScheduledAt |-> TimestampAdd(timestamp,
                          DurationFromSeconds(globalConfig.SplitRecombineDelaySec)) ]

\* PlayerSplitReducer
PlayerSplitReducer(sender) ==
    IF sender \notin DOMAIN player
    THEN Failed("PlayerSplit")
    ELSE
      LET playerID == player[sender].PlayerID
          circles == GetCirclesByPlayer(circle, playerID)
          circleCount == Len(circles)
      IN IF circleCount >= globalConfig.MaxCirclesPerPlayer
         THEN /\ last' = Call("PlayerSplit", sender, 0, "ok")
              /\ UNCHANGED <<tables, now, globalConfig>>
         ELSE
           LET st == SplitLoop(circles, 1,
                        [ entity |-> entity, circle |-> circle,
                          nextEntityID |-> nextEntityID,
                          circleCount |-> circleCount, split |-> <<>> ],
                        playerID, now)
           IN /\ st.nextEntityID <= MaxEntityID + 1
              /\ nextScheduledID <= MaxScheduledID
              /\ entity' = st.entity
              /\ circle' = st.circle
              /\ nextEntityID' = st.nextEntityID
              /\ timers' = timers \cup {RecombineTimer(playerID, now)}
              /\ nextScheduledID' = nextScheduledID + 1
              /\ last' = [Call("PlayerSplit", sender, 0, "ok") EXCEPT !.split = st.split]
              /\ UNCHANGED <<food, player, logged_out_player, now, globalConfig,
                             moveTicks,
                             globalRegistry, goroutines>>

\* the circles CircleRecombineReducer finds ready, in the order it reads them
RecombiningEntities(playerID, timestamp) ==
    SelectSeq(GetCirclesByPlayer(circle, playerID),
              LAMBDA id :
                /\ SecondsAtLeast(TimestampSub(timestamp, circle[id].LastSplitTime),
                                  globalConfig.SplitRecombineDelaySec)
                /\ id \in DOMAIN entity)

\* the body of CircleRecombineReducer: what it leaves in `last'
CircleRecombineCall(playerID, timestamp) ==
    LET circles == GetCirclesByPlayer(circle, playerID)
        ready == RecombiningEntities(playerID, timestamp)
    IN IF Len(circles) <= 1
       THEN Call("CircleRecombine", playerID, 0, "ok")
       ELSE IF Len(ready) <= 1
       THEN [Call("CircleRecombine", playerID, 0, "ok") EXCEPT !.recombining = ready]
       ELSE [Call("CircleRecombine", playerID, 0, "ok") EXCEPT
               !.recombining = ready,
               !.computed = [i \in 1..(Len(ready) - 1) |->
                               ScheduleConsumeEntity(ready[1], ready[i + 1], timestamp)]]

\* CircleRecombineReducer, called with player_id: the timers it builds are
\* dropped ("TODO: Insert timer into database")
CircleRecombineReducer(playerID) ==
    /\ last' = CircleRecombineCall(playerID, now)
    /\ UNCHANGED <<tables, now, globalConfig>>

\* the host fires a due timer: CircleRecombineReducer with the timer's player_id
FireTimer(t) ==
    /\ t \in timers
    /\ t.Reducer = "CircleRecombine"
    /\ now >= t.ScheduledAt
    /\ timers' = timers \ {t}
    /\ last' = CircleRecombineCall(t.PlayerID, now)
    /\ UNCHANGED <<entity, circle, food, player, logged_out_player, nextEntityID,
                   nextScheduledID, now, globalConfig, moveTicks,
                   globalRegistry, goroutines>>

\* the consumer's mass left as it was
KeepMass(consumerMass, consumedMass) == consumerMass

\* consumerEntity.Mass += consumedEntity.Mass
TransferMass(consumerMass, consumedMass) == consumerMass + consumedMass

\* ConsumeEntityReducer
ConsumeEntityReducer(consumerID, consumedID) ==
    IF consumedID \notin DOMAIN entity
    THEN Failed("ConsumeEntity")
    ELSE IF consumerID \notin DOMAIN entity
    THEN Failed("ConsumeEntity")
    ELSE
      LET mass == TransferMass(entity[consumerID].Mass, entity[consumedID].Mass)
          tb == DestroyEntity([entity |-> entity, circle |-> circle, food |-> food],
                              consumedID)
      IN IF consumerID \notin DOMAIN tb.entity
         THEN Failed("ConsumeEntity")   \* UpdateEntity: no row
         ELSE /\ entity' = [tb.entity EXCEPT ![consumerID].Mass = mass]
              /\ circle' = tb.circle
              /\ food' = tb.food
              /\ last' = Call("ConsumeEntity", consumerID, consumedID, "ok")
              /\ UNCHANGED <<player, logged_out_player, nextEntityID, timers,
                             nextScheduledID, now, globalConfig, moveTicks,
                             globalRegistry, goroutines>>

\* UpdatePlayerInputReducer storing the direction as the client sent it
UpdatePlayerInputAsSent(sender, direction) ==
    IF sender \notin DOMAIN player
    THEN Failed("UpdatePlayerInput")
    ELSE
      LET playerID == player[sender].PlayerID
      IN /\ circle' = [id \in DOMAIN circle |->
                          IF circle[id].PlayerID = playerID
                          THEN [circle[id] EXCEPT
                                  !.Direction = direction,
                                  !.Speed = Magnitude(direction)]
                          ELSE circle[id]]
         /\ last' = Call("UpdatePlayerInput", sender, 0, "ok")
         /\ UNCHANGED <<entity, food, player, logged_out_player, nextEntityID, timers,
                        nextScheduledID, now, globalConfig, moveTicks,
                        globalRegistry, goroutines>>

\* UpdatePlayerInputReducer
UpdatePlayerInputReducer(sender, direction) ==
    IF sender \notin DOMAIN player
    THEN Failed("UpdatePlayerInput")
    ELSE
      LET playerID == player[sender].PlayerID
      IN /\ circle' = [id \in DOMAIN circle |->
                          IF circle[id].PlayerID = playerID
                          THEN [circle[id] EXCEPT
                                  !.Direction = Normalized(direction),
                                  !.Speed = Clamp(Magnitude(direction), 0, Scale)]
                          ELSE circle[id]]
         /\ last' = Call("UpdatePlayerInput", sender, 0, "ok")
         /\ UNCHANGED <<entity, food, player, logged_out_player, nextEntityID, timers,
                        nextScheduledID, now, globalConfig, moveTicks,
                        globalRegistry, goroutines>>

\* float32(ctx.Timestamp.Sub(t).ToDuration().Seconds())
SecondsSince(timestamp, t) == TimestampSub(timestamp, t) \div (MicrosPerSecond \div Scale)

\* gravityForce of MoveAllPlayersReducer for the pair (idA, idB): the time
\* since the split is taken from circleA alone
PairGravity(idA, idB, n, timestamp) ==
    CalculateGravityPull(entity[idA], entity[idB],
                         SecondsSince(timestamp, circle[idA].LastSplitTime), n)

\* both circles of the pair given forceA
PairForcesSameWay(idA, idB, n, timestamp) ==
    LET gravityForce == PairGravity(idA, idB, n, timestamp)
        separationForce == CalculateSeparationForce(entity[idA], entity[idB])
        forceA == VecDiv(VecAdd(gravityForce, separationForce), 2 * Scale)
    IN [ forceA |-> forceA, forceB |-> forceA ]

\* forceA and forceB of MoveAllPlayersReducer for the pair (idA, idB) of a
\* player with n circles
PairForces(idA, idB, n, timestamp) ==
    LET gravityForce == PairGravity(idA, idB, n, timestamp)
        separationForce == CalculateSeparationForce(entity[idA], entity[idB])
    IN [ forceA |-> VecDiv(VecAdd(gravityForce, separationForce), 2 * Scale),
         forceB |-> VecDiv(VecAdd(VecMul(gravityForce, -Scale),
                                  VecMul(separationForce, -Scale)), 2 * Scale) ]

\* the forces the pairs (i, j), i < j, of playerCircles add to the circle at k
RECURSIVE SplitForce(_, _, _, _)
SplitForce(playerCircles, k, m, timestamp) ==
    IF m > Len(playerCircles) THEN Zero
    ELSE LET n == Len(playerCircles)
             rest == SplitForce(playerCircles, k, m + 1, timestamp)
         IN IF m = k THEN rest
            ELSE IF k < m
            THEN VecAdd(PairForces(playerCircles[k], playerCircles[m], n, timestamp).forceA,
                        rest)
            ELSE VecAdd(PairForces(playerCircles[m], playerCircles[k], n, timestamp).forceB,
                        rest)

\* circleDirections of MoveAllPlayersReducer: Direction * Speed, plus the
\* split forces for the circles of a player that has more than one
CircleDirection(id, timestamp) ==
    LET playerCircles == GetCirclesByPlayer(circle, circle[id].PlayerID)
        k == CHOOSE i \in 1..Len(playerCircles) : playerCircles[i] = id
        base == VecMul(circle[id].Direction, circle[id].Speed)
    IN IF /\ \E s \in DOMAIN player : player[s].PlayerID = circle[id].PlayerID
          /\ Len(playerCircles) > 1
       THEN VecAdd(base, SplitForce(playerCircles, k, 1, timestamp))
       ELSE base

\* the move step with the food under a circle eaten on the spot
MovedEntitiesEating(timestamp) ==
    LET eaten == {e \in DOMAIN entity \ DOMAIN circle :
                    \E c \in DOMAIN circle : IsOverlapping(entity[c], entity[e])}
    IN [id \in DOMAIN entity \ eaten |->
          IF id \in DOMAIN circle
          THEN [entity[id] EXCEPT !.Position =
                  UpdateCirclePosition(entity[id], CircleDirection(id, timestamp),
                                       50, WorldSize)]
          ELSE entity[id]]

\* the entity table after the move step of MoveAllPlayersReducer
MovedEntities(timestamp) ==
    [id \in DOMAIN entity |->
        IF id \in DOMAIN circle
        THEN [entity[id] EXCEPT !.Position =
                UpdateCirclePosition(entity[id], CircleDirection(id, timestamp),
                                     50, WorldSize)]
        ELSE entity[id]]

\* the orders GetAllCircles and GetCirclesByPlayer can hand the rows out in
CircleOrders ==
    {o \in [1..Cardinality(DOMAIN circle) -> DOMAIN circle] :
        \A i, j \in DOMAIN o : i # j => o[i] # o[j]}

\* circleDirections with the circles handed out in the order o
CircleDirectionIn(o, id, timestamp) ==
    LET playerCircles == SelectSeq(o, LAMBDA c : circle[c].PlayerID = circle[id].PlayerID)
        k == CHOOSE i \in 1..Len(playerCircles) : playerCircles[i] = id
        base == VecMul(circle[id].Direction, circle[id].Speed)
    IN IF /\ \E s \in DOMAIN player : player[s].PlayerID = circle[id].PlayerID
          /\ Len(playerCircles) > 1
       THEN VecAdd(base, SplitForce(playerCircles, k, 1, timestamp))
       ELSE base

\* the move loop that adds to a circle's direction what the circle moved
\* before it has just moved by
RECURSIVE MoveLoopDragged(_, _, _, _)
MoveLoopDragged(o, ent, dirs, i) ==
    IF i > Len(o) THEN ent
    ELSE LET drag == IF i = 1 THEN Zero
                     ELSE VecSub(ent[o[i - 1]].Position, entity[o[i - 1]].Position)
         IN MoveLoopDragged(o,
                [ent EXCEPT ![o[i]].Position =
                    UpdateCirclePosition(ent[o[i]], VecAdd(dirs[o[i]], drag),
                                         50, WorldSize)],
                dirs, i + 1)

\* the move loop run over the circles in the order o, from its position i,
\* with the circleDirections dirs: each entity is read from the entity map,
\* moved, and written back
RECURSIVE MoveLoopIn(_, _, _, _)
MoveLoopIn(o, ent, dirs, i) ==
    IF i > Len(o) THEN ent
    ELSE MoveLoopIn(o,
                [ent EXCEPT ![o[i]].Position =
                    UpdateCirclePosition(ent[o[i]], dirs[o[i]], 50, WorldSize)],
                dirs, i + 1)

\* the collision test of MoveAllPlayersReducer on the moved entities: circle
\* c consumes other
Collides(ent, c, other) ==
    /\ other # c
    /\ IsOverlapping(ent[c], ent[other])
    /\ IF other \in DOMAIN circle
       THEN /\ circle[other].PlayerID # circle[c].PlayerID
            /\ CanConsumeEntity(ent[c].Mass, ent[other].Mass)
       ELSE TRUE

\* the timers the collision loop builds, in the order it builds them
CollisionTimers(ent, timestamp) ==
    LET cs == SortedSeq({id \in DOMAIN circle : id \in DOMAIN ent})
        es == SortedSeq(DOMAIN ent)
        m == Len(es)
        pairs == [k \in 1..(Len(cs) * m) |->
                    <<cs[((k - 1) \div m) + 1], es[((k - 1) % m) + 1]>>]
        hits == SelectSeq(pairs, LAMBDA pr : Collides(ent, pr[1], pr[2]))
    IN [k \in 1..Len(hits) |-> ScheduleConsumeEntity(hits[k][1], hits[k][2], timestamp)]

\* MoveAllPlayersReducer: the timers it builds are dropped ("TODO: Insert
\* timer into database")
MoveAllPlayersReducer ==
    /\ moveTicks < MaxMoveTicks
    /\ moveTicks' = moveTicks + 1
    /\ entity' = MovedEntities(now)
    /\ last' = [Call("MoveAllPlayers", 0, 0, "ok") EXCEPT
                  !.computed = CollisionTimers(MovedEntities(now), now)]
    /\ UNCHANGED <<circle, food, player, logged_out_player, nextEntityID, timers,
                   nextScheduledID, now, globalConfig,
                   globalRegistry, goroutines>>

\* the draws of SpawnFoodEntity: RangeUint32 for the mass, RangeFloat32 for
\* the coordinates
FoodSpawns ==
    { [Mass |-> m, Position |-> Vec(x, y)] :
        m \in globalConfig.FoodMassMin..globalConfig.FoodMassMax,
        x \in {50 * Scale}, y \in {50 * Scale} }

\* SpawnFoodReducer: one SpawnFoodEntity per missing food
SpawnFoodReducer ==
    IF Cardinality(DOMAIN player) = 0
    THEN /\ last' = Call("SpawnFood", 0, 0, "ok")
         /\ UNCHANGED <<tables, now, globalConfig>>
    ELSE
      LET foodCount == Cardinality(DOMAIN food)
          missing == IF foodCount < globalConfig.TargetFoodCount
                     THEN globalConfig.TargetFoodCount - foodCount ELSE 0
          ids == nextEntityID..(nextEntityID + missing - 1)
      IN /\ nextEntityID + missing - 1 <= MaxEntityID
         /\ \E draws \in [ids -> FoodSpawns] :
              /\ \A id \in ids :
                    /\ InSpawnRange(draws[id].Position.X, draws[id].Mass)
                    /\ InSpawnRange(draws[id].Position.Y, draws[id].Mass)
              /\ entity' = [id \in DOMAIN entity \cup ids |->
                              IF id \in ids
                              THEN [Position |-> draws[id].Position,
                                    Mass |-> draws[id].Mass]
                              ELSE entity[id]]
         /\ food' = [id \in DOMAIN food \cup ids |->
                       IF id \in ids THEN [EntityID |-> 0] ELSE food[id]]
         /\ nextEntityID' = nextEntityID + missing
         /\ last' = Call("SpawnFood", 0, 0, "ok")
         /\ UNCHANGED <<circle, player, logged_out_player, timers, nextScheduledID,
                        now, globalConfig, moveTicks,
                        globalRegistry, goroutines>>

\* CircleDecayReducer: every circle whose entity ShouldCircleDecay
CircleDecayReducer ==
    /\ entity' = [id \in DOMAIN entity |->
                    IF id \in DOMAIN circle /\ ShouldCircleDecay(entity[id].Mass)
                    THEN [entity[id] EXCEPT !.Mass = CalculateDecayedMass(@)]
                    ELSE entity[id]]
    /\ last' = Call("CircleDecay", 0, 0, "ok")
    /\ UNCHANGED <<circle, food, player, logged_out_player, nextEntityID, timers,
                   nextScheduledID, now, globalConfig, moveTicks,
                   globalRegistry, goroutines>>

\* SetGlobalConfiguration with the validation left out
SetGlobalConfigurationUnchecked(config) ==
    /\ globalConfig' = config
    /\ last' = Call("SetGlobalConfiguration", 0, 0, "ok")
    /\ UNCHANGED <<tables, now>>

\* SetGlobalConfiguration: the configuration installed if it validates
SetGlobalConfiguration(config) ==
    IF ~Validate(config)
    THEN Failed("SetGlobalConfiguration")
    ELSE /\ globalConfig' = config
         /\ last' = Call("SetGlobalConfiguration", 0, 0, "ok")
         /\ UNCHANGED <<tables, now>>

----------------------------------------------------------------------------
(* The host clock *)

\* the instants the host calls at: around the recombine delay after time 0
Instants ==
    LET d == globalConfig.SplitRecombineDelaySec * (MicrosPerSecond \div Scale)
    IN {d - 1000, d, d + 1000}

AdvanceTime(t) ==
    /\ t > now
    /\ now' = t
    /\ UNCHANGED <<tables, globalConfig, last>>

----------------------------------------------------------------------------

\* the point RangeFloat32 draws a spawn coordinate at
SpawnCoords == {50 * Scale}

EntityIDs == 1..MaxEntityID

Next ==
    \/ \E s \in Identities : ConnectReducer(s)
    \/ \E s \in Identities : DisconnectReducer(s)
    \/ \E s \in Identities : SuicideReducer(s)
    \/ \E s \in Identities, x \in SpawnCoords, y \in SpawnCoords :
          /\ InSpawnRange(x, START_PLAYER_MASS) /\ InSpawnRange(y, START_PLAYER_MASS)
          /\ EnterGameReducer(s, x, y)
    \/ \E s \in Identities, x \in SpawnCoords, y \in SpawnCoords :
          /\ InSpawnRange(x, START_PLAYER_MASS) /\ InSpawnRange(y, START_PLAYER_MASS)
          /\ RespawnReducer(s, x, y)
    \/ \E s \in Identities : PlayerSplitReducer(s)
    \/ \E p \in Identities : CircleRecombineReducer(PlayerIDOf(p))
    \/ \E a \in EntityIDs, b \in EntityIDs : ConsumeEntityReducer(a, b)
    \/ \E t \in timers : FireTimer(t)
    \/ \E t \in Instants : AdvanceTime(t)

Spec == Init /\ [][Next]_vars

----------------------------------------------------------------------------
(* The move tick among the calls that place and steer the entities *)

\* the clients of the move tick: one more, for circles of different players
MoveIdentities == 1..(NumIdentities + 1)

\* the points RangeFloat32 draws the x of a spawn at
MoveSpawnXs == {50 * Scale, 55 * Scale + Scale \div 2}

\* the directions the clients send
InputDirections == {Vec(-Scale, 0)}

NextMove ==
    \/ \E s \in MoveIdentities : ConnectReducer(s)
    \/ \E s \in MoveIdentities, x \in MoveSpawnXs, y \in SpawnCoords :
          /\ InSpawnRange(x, START_PLAYER_MASS) /\ InSpawnRange(y, START_PLAYER_MASS)
          /\ EnterGameReducer(s, x, y)
    \/ \E s \in MoveIdentities, d \in InputDirections : UpdatePlayerInputReducer(s, d)
    \/ \E a \in EntityIDs, b \in EntityIDs : ConsumeEntityReducer(a, b)
    \/ SpawnFoodReducer
    \/ MoveAllPlayersReducer

\* the module loaded with the default split settings
InitMove == Init /\ globalConfig.StartPlayerMass = START_PLAYER_MASS

SpecMove == InitMove /\ [][NextMove]_vars

----------------------------------------------------------------------------
(* The decay tick among the calls that make and merge circles *)

NextDecay ==
    \/ \E s \in Identities : ConnectReducer(s)
    \/ \E s \in Identities, x \in SpawnCoords, y \in SpawnCoords :
          /\ InSpawnRange(x, START_PLAYER_MASS) /\ InSpawnRange(y, START_PLAYER_MASS)
          /\ EnterGameReducer(s, x, y)
    \/ \E s \in Identities, x \in SpawnCoords, y \in SpawnCoords :
          /\ InSpawnRange(x, START_PLAYER_MASS) /\ InSpawnRange(y, START_PLAYER_MASS)
          /\ RespawnReducer(s, x, y)
    \/ \E s \in Identities : PlayerSplitReducer(s)
    \/ \E a \in EntityIDs, b \in EntityIDs : ConsumeEntityReducer(a, b)
    \/ CircleDecayReducer

SpecDecay == Init /\ [][NextDecay]_vars

----------------------------------------------------------------------------
(* The move tick on the circles of one player some time after its splits *)

\* where the second and third circle of the player are, the first at 50
PhysicsXs == {50 * Scale, 52 * Scale, 58 * Scale, 60 * Scale, 70 * Scale}

PhysicsMasses == {START_PLAYER_MASS, 2 * START_PLAYER_MASS}

\* when a circle was split off, and when the tick runs
SplitInstants == {0, 2 * MicrosPerSecond}

TickInstants == {4 * MicrosPerSecond, 6 * MicrosPerSecond}

\* a circle of the player as a split left it
PhysicsCircle(x, y, mass, lastSplitTime) ==
    SpawnCircleAt(PlayerIDOf(1), mass, Vec(x, y), lastSplitTime)

\* the tables of the player's circles, the clock at the tick
PhysicsTables ==
    /\ \E n \in 2..MaxEntityID :
        \E x \in PhysicsXs, m1 \in PhysicsMasses, m2 \in PhysicsMasses,
           t1 \in SplitInstants, t2 \in SplitInstants :
          LET rows == [id \in 1..n |->
                         IF id = 1 THEN PhysicsCircle(50 * Scale, 50 * Scale, m1, t1)
                         ELSE IF id = 2 THEN PhysicsCircle(x, 50 * Scale, m2, t2)
                         ELSE PhysicsCircle(50 * Scale, (40 + 10 * id) * Scale,
                                            START_PLAYER_MASS, 0)]
          IN /\ entity = [id \in 1..n |-> rows[id].entity]
             /\ circle = [id \in 1..n |-> rows[id].circle]
             /\ nextEntityID = n + 1
    /\ food = EmptyTable
    /\ player = Put(EmptyTable, 1, [PlayerID |-> PlayerIDOf(1)])
    /\ logged_out_player = EmptyTable
    /\ timers = {}
    /\ nextScheduledID = 1
    /\ now \in TickInstants
    /\ moveTicks = 0
    /\ globalRegistry = NewRegistry
    /\ goroutines = IdleGoroutines
    /\ last = Call("Init", 0, 0, "ok")

InitPhysics == PhysicsTables /\ globalConfig = DefaultConfiguration

\* BLACKHOLIO_SPLIT_GRAV_PULL_BEFORE_RECOMBINE_SEC=0 over the defaults
NoPullWindowConfiguration ==
    [DefaultConfiguration EXCEPT !.SplitGravPullBeforeRecombineSec = 0]

InitNoPullWindow ==
    /\ PhysicsTables
    /\ globalConfig = NoPullWindowConfiguration
    /\ Validate(globalConfig)

NextPhysics ==
    \/ \E d \in InputDirections : UpdatePlayerInputReducer(1, d)
    \/ MoveAllPlayersReducer

SpecPhysics == InitPhysics /\ [][NextPhysics]_vars

SpecNoPullWindow == InitNoPullWindow /\ [][NextPhysics]_vars

----------------------------------------------------------------------------
(* The configuration set while players spawn, split and decay *)

\* configurations that do not validate: a zero start mass, a split mass
\* that is not twice the start mass, an overlap percentage out of range
InvalidConfigurations ==
    { [DefaultConfiguration EXCEPT !.StartPlayerMass = 0],
      [DefaultConfiguration EXCEPT !.MinMassToSplit = 2 * START_PLAYER_MASS + 1],
      [DefaultConfiguration EXCEPT !.MinOverlapPctToConsume = 0] }

\* what SetGlobalConfiguration is called with
OfferedConfigurations == LoadedConfigurations \cup InvalidConfigurations

NextConfig ==
    \/ \E c \in OfferedConfigurations : SetGlobalConfiguration(c)
    \/ \E s \in Identities : ConnectReducer(s)
    \/ \E s \in Identities, x \in SpawnCoords, y \in SpawnCoords :
          /\ InSpawnRange(x, START_PLAYER_MASS) /\ InSpawnRange(y, START_PLAYER_MASS)
          /\ EnterGameReducer(s, x, y)
    \/ \E s \in Identities : PlayerSplitReducer(s)
    \/ CircleDecayReducer

SpecConfig == Init /\ [][NextConfig]_vars

----------------------------------------------------------------------------
(* FastCollisionFilter called on the entities of one player's circles *)

\* a call of FastCollisionFilter for the entity id with every entity of the
\* table as a candidate: last.computed holds the ids returned
FilterCall(id) ==
    /\ last' = [Call("FastCollisionFilter", id, 0, "ok") EXCEPT
                  !.computed = FastCollisionFilter(entity, id,
                                                   SortedSeq(DOMAIN entity))]
    /\ UNCHANGED <<tables, now, globalConfig>>

NextFilter == \E id \in DOMAIN entity : FilterCall(id)

SpecFilter == InitPhysics /\ [][NextFilter]_vars

----------------------------------------------------------------------------
(* The clients steering their circles between spawns and splits *)

\* the directions json.Unmarshal hands to UpdatePlayerInputReducer: finite
\* vectors that are zero, shorter than one, of length one and longer than one
SteerDirections ==
    {Zero, Vec(300, 400), Vec(-Scale, 0), Vec(Scale, Scale),
     Vec(3 * Scale, -4 * Scale), Vec(0, NearLimit)}

NextSteer ==
    \/ \E s \in Identities : ConnectReducer(s)
    \/ \E s \in Identities : SuicideReducer(s)
    \/ \E s \in Identities, x \in SpawnCoords, y \in SpawnCoords :
          /\ InSpawnRange(x, START_PLAYER_MASS) /\ InSpawnRange(y, START_PLAYER_MASS)
          /\ EnterGameReducer(s, x, y)
    \/ \E s \in Identities, x \in SpawnCoords, y \in SpawnCoords :
          /\ InSpawnRange(x, START_PLAYER_MASS) /\ InSpawnRange(y, START_PLAYER_MASS)
          /\ RespawnReducer(s, x, y)
    \/ \E s \in Identities : PlayerSplitReducer(s)
    \/ \E s \in Identities, d \in SteerDirections : UpdatePlayerInputReducer(s, d)

SpecSteer == Init /\ [][NextSteer]_vars

----------------------------------------------------------------------------
(* The lifecycle calls under a configuration that allows few circles *)

\* BLACKHOLIO_MAX_CIRCLES_PER_PLAYER=2 over a loaded configuration in which
\* a circle of the spawn mass can split
FewCirclesConfiguration ==
    [DefaultConfiguration EXCEPT
        !.TargetFoodCount = 1,
        !.StartPlayerMass = 3,
        !.MinMassToSplit = 6,
        !.MaxCirclesPerPlayer = 2]

InitFewCircles ==
    /\ entity = EmptyTable
    /\ circle = EmptyTable
    /\ food = EmptyTable
    /\ player = EmptyTable
    /\ logged_out_player = EmptyTable
    /\ nextEntityID = 1
    /\ timers = {}
    /\ nextScheduledID = 1
    /\ now = 0
    /\ moveTicks = 0
    /\ globalRegistry = NewRegistry
    /\ goroutines = IdleGoroutines
    /\ globalConfig = FewCirclesConfiguration
    /\ Validate(globalConfig)
    /\ last = Call("Init", 0, 0, "ok")

SpecFewCircles == InitFewCircles /\ [][Next]_vars

----------------------------------------------------------------------------
(* The decay tick under the start mass of the usage text *)

\* "export BLACKHOLIO_START_PLAYER_MASS=20" over the defaults
HeavyStartConfiguration ==
    [DefaultConfiguration EXCEPT
        !.TargetFoodCount = 1,
        !.StartPlayerMass = 20,
        !.MinMassToSplit = 40]

InitHeavyStart ==
    /\ entity = EmptyTable
    /\ circle = EmptyTable
    /\ food = EmptyTable
    /\ player = EmptyTable
    /\ logged_out_player = EmptyTable
    /\ nextEntityID = 1
    /\ timers = {}
    /\ nextScheduledID = 1
    /\ now = 0
    /\ moveTicks = 0
    /\ globalRegistry = NewRegistry
    /\ goroutines = IdleGoroutines
    /\ globalConfig = HeavyStartConfiguration
    /\ Validate(globalConfig)
    /\ last = Call("Init", 0, 0, "ok")

SpecHeavyStart == InitHeavyStart /\ [][NextDecay]_vars

----------------------------------------------------------------------------
(* The registry called from several goroutines *)

NextRegistry ==
    \/ \E g \in Goroutines, reducer \in ReducerFunctions : RegisterCall(g, reducer)
    \/ \E g \in Goroutines : Lock(g)
    \/ \E g \in Goroutines : ReadNextID(g)
    \/ \E g \in Goroutines : IncrementNextID(g)
    \/ \E g \in Goroutines : StoreByName(g)
    \/ \E g \in Goroutines : StoreByID(g)
    \/ \E g \in Goroutines : RegisterReturn(g)
    \/ \E name \in ReducerNames : GetByName(name)
    \/ \E id \in 0..MaxRegistrations : GetByID(id)

SpecRegistry == Init /\ [][NextRegistry]_vars

----------------------------------------------------------------------------
(* Timestamp.Sub on its own, called with timestamps of any size *)

\* timestamps from the epoch to the largest a uint64 holds
SubTimestamps ==
    {0, 1, 1000000, 2000000, 2000001, 5000000,
     Uint64Modulus - 2, Uint64Modulus - 1}

InitSub ==
    /\ entity = EmptyTable
    /\ circle = EmptyTable
    /\ food = EmptyTable
    /\ player = EmptyTable
    /\ logged_out_player = EmptyTable
    /\ nextEntityID = 1
    /\ timers = {}
    /\ nextScheduledID = 1
    /\ now = 0
    /\ moveTicks = 0
    /\ globalRegistry = NewRegistry
    /\ goroutines = IdleGoroutines
    /\ globalConfig = DefaultConfiguration
    /\ \E t \in SubTimestamps, other \in SubTimestamps :
          last = [Call("arguments", 0, 0, "ok") EXCEPT !.computed = <<t, other>>]

\* a call of t.Sub(other): last.computed holds t, other and the duration
\* returned
SubCall ==
    /\ last.op = "arguments"
    /\ last' = [Call("Timestamp.Sub", 0, 0, "ok") EXCEPT
                  !.computed = Append(last.computed,
                                      TimestampSub(last.computed[1],
                                                   last.computed[2]))]
    /\ UNCHANGED <<tables, now, globalConfig>>

NextSub == SubCall

SpecSub == InitSub /\ [][NextSub]_vars

----------------------------------------------------------------------------
(* HandleResult on its own, called with Go values of every kind *)

ResultMessages == {"", "test error", "error message"}

\* the values of interface{} a reducer body may return: the dynamic type and
\* the text the value carries
SuccessResult == [Type |-> "SuccessResult", Message |-> ""]

ErrorResult(message) == [Type |-> "ErrorResult", Message |-> message]

GoValues ==
    {[Type |-> "nil", Message |-> ""], SuccessResult,
     [Type |-> "int", Message |-> ""]}
    \cup {ErrorResult(message) : message \in ResultMessages}
    \cup {[Type |-> t, Message |-> message] :
             t \in {"errorString", "ReducerError", "string"},
             message \in ResultMessages}

\* IsSuccess of a ReducerResult
IsSuccess(r) == r.Type = "SuccessResult"

\* the types whose method set has Error() string, i.e. implement error
ImplementsError(value) ==
    value.Type \in {"errorString", "ReducerError", "SuccessResult", "ErrorResult"}

\* the types whose method set has IsSuccess() bool and Error() string
ImplementsReducerResult(value) ==
    value.Type \in {"SuccessResult", "ErrorResult"}

\* HandleResult: the type switch takes the first case that matches
HandleResult(result) ==
    IF result.Type = "nil" THEN SuccessResult
    ELSE IF ImplementsError(result) THEN ErrorResult(result.Message)
    ELSE IF result.Type = "string"
    THEN IF result.Message = "" THEN SuccessResult ELSE ErrorResult(result.Message)
    ELSE IF ImplementsReducerResult(result) THEN result
    ELSE SuccessResult

\* a call of HandleResult(result): last.computed holds, call after call, the
\* argument and the value returned
HandleResultCall(result) ==
    /\ Len(last.computed) < MaxHandleResultCalls
    /\ last' = [Call("HandleResult", 0, 0, "ok") EXCEPT
                  !.computed = Append(last.computed,
                                      <<result, HandleResult(result)>>)]
    /\ UNCHANGED <<tables, now, globalConfig>>

NextHandleResult == \E result \in GoValues : HandleResultCall(result)

SpecHandleResult == Init /\ [][NextHandleResult]_vars

----------------------------------------------------------------------------
(* ClampPositionToWorld on its own, called with arguments of any size *)

\* coordinates inside the world, on its edge, and far out of it on both sides
ClampCoords == {-1000 * Scale, -10 * Scale, 0, 50 * Scale, 110 * Scale,
                5000 * Scale}

\* the radius of the test, and radii of half a small world and more
ClampRadii == {5 * Scale, 50 * Scale, 60 * Scale}

ClampWorldSizes == {100, DEFAULT_WORLD_SIZE}

InitClamp ==
    /\ entity = EmptyTable
    /\ circle = EmptyTable
    /\ food = EmptyTable
    /\ player = EmptyTable
    /\ logged_out_player = EmptyTable
    /\ nextEntityID = 1
    /\ timers = {}
    /\ nextScheduledID = 1
    /\ now = 0
    /\ moveTicks = 0
    /\ globalRegistry = NewRegistry
    /\ goroutines = IdleGoroutines
    /\ globalConfig = DefaultConfiguration
    /\ \E x \in ClampCoords, y \in ClampCoords, radius \in ClampRadii,
          worldSize \in ClampWorldSizes :
          last = [Call("arguments", 0, 0, "ok") EXCEPT
                    !.computed = <<Vec(x, y), radius, worldSize>>]

\* a call of ClampPositionToWorld: last.computed holds the position, the
\* radius, the world size and the position returned
ClampCall ==
    /\ last.op = "arguments"
    /\ last' = [Call("ClampPositionToWorld", 0, 0, "ok") EXCEPT
                  !.computed = Append(last.computed,
                                      ClampPositionToWorld(last.computed[1],
                                                           last.computed[2],
                                                           last.computed[3]))]
    /\ UNCHANGED <<tables, now, globalConfig>>

NextClamp == ClampCall

SpecClamp == InitClamp /\ [][NextClamp]_vars

----------------------------------------------------------------------------
(* The food tick run pass by pass against a host whose inserts can fail *)

\* BLACKHOLIO_TARGET_FOOD_COUNT=2 over the defaults
FoodTickConfiguration == [DefaultConfiguration EXCEPT !.TargetFoodCount = 2]

InitFoodTick ==
    /\ entity = EmptyTable
    /\ circle = EmptyTable
    /\ food = EmptyTable
    /\ player = EmptyTable
    /\ logged_out_player = EmptyTable
    /\ nextEntityID = 1
    /\ timers = {}
    /\ nextScheduledID = 1
    /\ now = 0
    /\ moveTicks = 0
    /\ globalRegistry = NewRegistry
    /\ goroutines = IdleGoroutines
    /\ globalConfig = FoodTickConfiguration
    /\ Validate(globalConfig)
    /\ last = Call("Init", 0, 0, "ok")

\* a SpawnFood call is inside its loop: last.a holds its foodCount
InSpawnFoodLoop == last.op = "SpawnFood" /\ last.result = "running"

\* SpawnFoodReducer up to its loop
SpawnFoodEnter ==
    /\ ~InSpawnFoodLoop
    /\ last' = IF Cardinality(DOMAIN player) = 0
               THEN Call("SpawnFood", 0, 0, "ok")
               ELSE Call("SpawnFood", Cardinality(DOMAIN food), 0, "running")
    /\ UNCHANGED <<tables, now, globalConfig>>

\* what the host answers to the two inserts of a pass
InsertOutcomes == {"InsertEntity fails", "InsertFood fails", "inserted"}

\* one pass of the loop of SpawnFoodReducer: SpawnFoodEntity draws the food,
\* and a failed insert goes on to the next pass with foodCount as it was;
\* last.computed holds the draw
SpawnFoodPass(draw, outcome) ==
    /\ InSpawnFoodLoop
    /\ last.a < globalConfig.TargetFoodCount
    /\ InSpawnRange(draw.Position.X, draw.Mass)
    /\ InSpawnRange(draw.Position.Y, draw.Mass)
    /\ outcome # "InsertEntity fails" => nextEntityID <= MaxEntityID
    /\ entity' = IF outcome = "InsertEntity fails" THEN entity
                 ELSE Put(entity, nextEntityID,
                          [Position |-> draw.Position, Mass |-> draw.Mass])
    /\ nextEntityID' = IF outcome = "InsertEntity fails" THEN nextEntityID
                       ELSE nextEntityID + 1
    /\ food' = IF outcome = "inserted"
               THEN Put(food, nextEntityID, [EntityID |-> 0])
               ELSE food
    /\ last' = [last EXCEPT !.a = IF outcome = "inserted" THEN @ + 1 ELSE @,
                            !.computed = <<draw, outcome>>]
    /\ UNCHANGED <<circle, player, logged_out_player, timers, nextScheduledID,
                   now, globalConfig, moveTicks, globalRegistry, goroutines>>

\* the loop condition is false: return SuccessResult{}
SpawnFoodReturn ==
    /\ InSpawnFoodLoop
    /\ ~(last.a < globalConfig.TargetFoodCount)
    /\ last' = [last EXCEPT !.result = "ok"]
    /\ UNCHANGED <<tables, now, globalConfig>>

NextFoodTick ==
    \/ \E s \in Identities : ~InSpawnFoodLoop /\ ConnectReducer(s)
    \/ \E a \in EntityIDs, b \in EntityIDs :
          ~InSpawnFoodLoop /\ ConsumeEntityReducer(a, b)
    \/ SpawnFoodEnter
    \/ \E draw \in FoodSpawns, outcome \in InsertOutcomes : SpawnFoodPass(draw, outcome)
    \/ SpawnFoodReturn

SpecFoodTick == InitFoodTick /\ [][NextFoodTick]_vars

\* the reducer, once called, keeps running
FairSpecFoodTick ==
    /\ SpecFoodTick
    /\ WF_vars(\E draw \in FoodSpawns, outcome \in InsertOutcomes :
                  SpawnFoodPass(draw, outcome))
    /\ WF_vars(SpawnFoodReturn)

----------------------------------------------------------------------------
(* The host that fires what is scheduled *)

FairSpec ==
    /\ Spec
    /\ WF_vars(\E t \in timers : FireTimer(t))
    /\ WF_vars(\E t \in Instants : AdvanceTime(t))

----------------------------------------------------------------------------
(* Properties *)

\* the recombine delay in microseconds
DelayMicros == globalConfig.SplitRecombineDelaySec * (MicrosPerSecond \div Scale)

\* a step that runs CircleRecombine for playerID: called, or fired by its timer
RecombineStep(playerID) ==
    \/ CircleRecombineReducer(playerID)
    \/ \E t \in timers : t.PlayerID = playerID /\ FireTimer(t)

\* the entity ids in a sequence
Range(seq) == {seq[i] : i \in 1..Len(seq)}

\* C1 as stated: whenever ConsumeEntity(A, B) runs with both entities
\* present, afterwards A's mass is its mass before plus B's mass before and B
\* no longer exists.
C1_ConsumeTransfersMass ==
    [][\A a \in EntityIDs, b \in EntityIDs :
          (/\ a \in DOMAIN entity
           /\ b \in DOMAIN entity
           /\ ConsumeEntityReducer(a, b))
          => /\ b \notin DOMAIN entity'
             /\ a \in DOMAIN entity'
             /\ entity'[a].Mass = entity[a].Mass + entity[b].Mass]_vars

\* C1, for two distinct entities: whenever ConsumeEntity(A, B) runs with A
\* and B present and A # B, afterwards A's mass is its mass before plus B's
\* mass before and B no longer exists.
C1_ConsumeTransfersMassDistinct ==
    [][\A a \in EntityIDs, b \in EntityIDs :
          (/\ a \in DOMAIN entity
           /\ b \in DOMAIN entity
           /\ a # b
           /\ ConsumeEntityReducer(a, b))
          => /\ b \notin DOMAIN entity'
             /\ a \in DOMAIN entity'
             /\ entity'[a].Mass = entity[a].Mass + entity[b].Mass]_vars

\* a consume of a present entity by another has run: the consumer holds more
\* than one circle's start mass and the consumed row is gone
C1_Consumed ==
    /\ last.op = "ConsumeEntity"
    /\ last.result = "ok"
    /\ last.a # last.b
    /\ last.a \in DOMAIN entity
    /\ last.b \notin DOMAIN entity
    /\ entity[last.a].Mass > START_PLAYER_MASS

\* C2: when a circle of mass M is split, the new circle gets floor(M / 2),
\* the original keeps M - floor(M / 2), and the two masses add up to M.
C2_SplitHalvesMass ==
    [][\A s \in Identities :
          PlayerSplitReducer(s) =>
            \A k \in 1..Len(last'.split) :
              LET id == last'.split[k][1]
                  newID == last'.split[k][2]
                  M == entity[id].Mass
              IN /\ newID \notin DOMAIN entity
                 /\ entity'[newID].Mass = M \div 2
                 /\ entity'[id].Mass = M - (M \div 2)
                 /\ entity'[id].Mass + entity'[newID].Mass = M]_vars

\* a circle of odd mass has been split: the original holds one more than the
\* new circle
C2_OddSplit ==
    /\ last.op = "PlayerSplit"
    /\ \E k \in 1..Len(last.split) :
          /\ last.split[k][1] \in DOMAIN entity
          /\ last.split[k][2] \in DOMAIN entity
          /\ entity[last.split[k][1]].Mass = entity[last.split[k][2]].Mass + 1

\* circle c and entity e overlap and e is eligible for c: e is food, or a
\* circle of another player small enough for c to consume
EligibleOverlap(c, e) ==
    /\ c # e
    /\ IsOverlapping(entity[c], entity[e])
    /\ \/ e \notin DOMAIN circle
       \/ /\ circle[e].PlayerID # circle[c].PlayerID
          /\ CanConsumeEntity(entity[c].Mass, entity[e].Mass)

\* C3: after a move tick, for every circle that overlaps an eligible entity
\* at the moved positions the host holds a Consume(circle, entity) event.
C3_OverlapSchedulesConsume ==
    last.op = "MoveAllPlayers" =>
      \A c \in DOMAIN circle, e \in DOMAIN entity :
        EligibleOverlap(c, e) =>
          \E t \in timers :
            /\ t.Reducer = "ConsumeEntity"
            /\ t.ConsumerEntityID = c
            /\ t.ConsumedEntityID = e

\* C4: when at least two circles qualify, CircleRecombine schedules with
\* the host one Consume(base, other) for every other qualifying circle, base
\* being the first; when fewer than two qualify it schedules nothing and
\* changes no table.
C4_RecombineSchedulesConsumes ==
    [][\A p \in Identities :
          RecombineStep(PlayerIDOf(p)) =>
            LET ready == RecombiningEntities(PlayerIDOf(p), now)
            IN IF Len(GetCirclesByPlayer(circle, PlayerIDOf(p))) > 1 /\ Len(ready) >= 2
               THEN \A i \in 2..Len(ready) :
                      \E t \in timers' :
                        /\ t.Reducer = "ConsumeEntity"
                        /\ t.ConsumerEntityID = ready[1]
                        /\ t.ConsumedEntityID = ready[i]
               ELSE /\ timers' \subseteq timers
                    /\ UNCHANGED <<entity, circle, food, player, logged_out_player>>]_vars

\* player s has split circle a into a and b at time 0, so that the
\* recombine timer comes due within the instants of the clock
SplitAtStart(s, a, b) ==
    /\ last.op = "PlayerSplit"
    /\ last.a = s
    /\ <<a, b>> \in Range(last.split)
    /\ now = 0

\* player s has split a circle at a later time
SplitAgain(s) ==
    /\ last.op = "PlayerSplit"
    /\ last.a = s
    /\ last.split # <<>>
    /\ now > 0

\* C5: after a player splits, with the host firing what is scheduled, the
\* two circles of the split that still exist are eventually one circle again,
\* unless the player splits again.
C5_SplitEventuallyRecombines ==
    \A s \in Identities, a \in EntityIDs, b \in EntityIDs :
      [](SplitAtStart(s, a, b) =>
           <>(\/ a \notin DOMAIN circle
              \/ b \notin DOMAIN circle
              \/ SplitAgain(s)))

\* the circles a PlayerSplit call of player playerID split before reaching
\* circle id, given the (original, new) pairs it made
SplitBefore(split, id) == {k \in 1..Len(split) : split[k][1] < id}

C7_RecombineAtDelay ==
    [][\A s \in Identities :
          (PlayerSplitReducer(s) /\ last'.split # <<>>) =>
            \E t \in timers' \ timers :
              /\ t.Reducer = "CircleRecombine"
              /\ t.PlayerID = PlayerIDOf(s)
              /\ t.ScheduledAt = now + DelayMicros]_vars

\* C8: when CircleRecombine looks at the circles of a player that has more
\* than one, a circle qualifies if and only if now - last_split_time is at
\* least the recombine delay.
C8_QualifiesAtDelay ==
    [][\A p \in Identities :
          (/\ RecombineStep(PlayerIDOf(p))
           /\ Len(GetCirclesByPlayer(circle, PlayerIDOf(p))) > 1)
          => \A id \in Range(GetCirclesByPlayer(circle, PlayerIDOf(p))) :
               id \in Range(last'.recombining)
               <=> now - circle[id].LastSplitTime >= DelayMicros]_vars

\* CircleRecombine has found the circles of a split ready exactly when the
\* delay has passed
C8_ReadyAtDelay ==
    /\ last.op = "CircleRecombine"
    /\ Len(last.recombining) >= 2
    /\ \A i \in 1..Len(last.recombining) :
          /\ last.recombining[i] \in DOMAIN circle
          /\ now - circle[last.recombining[i]].LastSplitTime = DelayMicros

\* C9: after a PlayerSplit call, the original and the new circle of every
\* split it made have last_split_time equal to the time of the call.
C9_SplitStampsBoth ==
    [][\A s \in Identities :
          PlayerSplitReducer(s) =>
            \A k \in 1..Len(last'.split) :
              /\ circle'[last'.split[k][1]].LastSplitTime = now
              /\ circle'[last'.split[k][2]].LastSplitTime = now]_vars

\* a circle spawned earlier has been split at a later time, and both circles
\* carry that time
C9_SplitLater ==
    /\ last.op = "PlayerSplit"
    /\ last.split # <<>>
    /\ now > 0
    /\ \A k \in 1..Len(last.split) :
          /\ last.split[k][1] \in DOMAIN circle
          /\ last.split[k][2] \in DOMAIN circle
          /\ circle[last.split[k][1]].LastSplitTime = now
          /\ circle[last.split[k][2]].LastSplitTime = now

\* C10: a Consume event whose consumer or consumed entity no longer
\* exists changes no table and reports no failure.
C10_MissingEntityIsNoOp ==
    [][\A a \in EntityIDs, b \in EntityIDs :
          (/\ a \notin DOMAIN entity \/ b \notin DOMAIN entity
           /\ ConsumeEntityReducer(a, b))
          => /\ UNCHANGED tables
             /\ last'.result = "ok"]_vars

\* C11: a Consume event naming a consumed entity that is already gone
\* transfers nothing and destroys nothing; a Consume event that takes effect
\* destroys its consumed entity; and a destroyed entity never exists again.
\* So of all the Consume events naming one consumed entity, in any order, at
\* most one transfers its mass and it is destroyed exactly once.
C11_ConsumeTakesEffectOnce ==
    [][/\ \A a \in EntityIDs, b \in EntityIDs :
            ConsumeEntityReducer(a, b) =>
              /\ b \notin DOMAIN entity => UNCHANGED <<entity, circle, food>>
              /\ last'.result = "ok" =>
                    /\ b \in DOMAIN entity
                    /\ b \notin DOMAIN entity'
              /\ \A e \in DOMAIN entity' :
                    e # a => entity'[e].Mass = entity[e].Mass
       /\ \A b \in EntityIDs :
            (b < nextEntityID /\ b \notin DOMAIN entity) => b \notin DOMAIN entity']_vars

\* a Consume event has been fired in vain after a consume took effect: the
\* consumed entity is gone and the consumer holds its mass once
C11_FiredAgain ==
    /\ last.op = "ConsumeEntity"
    /\ last.result = "error"
    /\ \E a \in DOMAIN entity, b \in EntityIDs :
          /\ b < nextEntityID
          /\ b \notin DOMAIN entity
          /\ entity[a].Mass = 2 * START_PLAYER_MASS

\* C12: a move tick consumes nothing inline: it changes no entity's mass,
\* deletes (and adds) no entity, circle or food row, and writes nothing but
\* the positions of circle entities.
C12_MoveWritesPositionsOnly ==
    [][MoveAllPlayersReducer =>
         /\ DOMAIN entity' = DOMAIN entity
         /\ \A id \in DOMAIN entity :
               /\ entity'[id].Mass = entity[id].Mass
               /\ id \notin DOMAIN circle => entity'[id] = entity[id]
         /\ UNCHANGED <<circle, food, player, logged_out_player, timers,
                        nextEntityID, nextScheduledID, globalConfig,
                        globalRegistry, goroutines>>]_vars

\* a move tick has found a circle on something it may consume, and both are
\* still there
C12_CollisionLeftInPlace ==
    /\ last.op = "MoveAllPlayers"
    /\ last.computed # <<>>
    /\ \A k \in 1..Len(last.computed) :
          /\ last.computed[k].ConsumerEntityID \in DOMAIN entity
          /\ last.computed[k].ConsumedEntityID \in DOMAIN entity

\* the timer at k of the last call names a circle of another player as the
\* consumed entity
NamesOtherCircle(k) ==
    /\ last.computed[k].ConsumerEntityID \in DOMAIN circle
    /\ last.computed[k].ConsumedEntityID \in DOMAIN circle

\* C13: a move tick initiates the consumption of another player's circle
\* only when consumedMass / consumerMass < minimumSafeMassRatio; under the
\* default ratio two overlapping circles of mass 100 and 90 may not consume
\* each other in either direction.
C13_ConsumeOnlyBelowSafeRatio ==
    /\ last.op = "MoveAllPlayers" =>
         \A k \in 1..Len(last.computed) :
           NamesOtherCircle(k) =>
             LET c == last.computed[k].ConsumerEntityID
                 e == last.computed[k].ConsumedEntityID
             IN /\ circle[c].PlayerID # circle[e].PlayerID
                /\ entity[e].Mass * Scale
                     < globalConfig.MinimumSafeMassRatio * entity[c].Mass
    /\ \A t \in timers :
         (/\ t.Reducer = "ConsumeEntity"
          /\ t.ConsumerEntityID \in DOMAIN circle
          /\ t.ConsumedEntityID \in DOMAIN circle)
         => entity[t.ConsumedEntityID].Mass * Scale
              < globalConfig.MinimumSafeMassRatio * entity[t.ConsumerEntityID].Mass
    /\ globalConfig.MinimumSafeMassRatio = MINIMUM_SAFE_MASS_RATIO =>
         /\ IsOverlapping([Position |-> Vec(50 * Scale, 50 * Scale), Mass |-> 100],
                          [Position |-> Vec(60 * Scale, 50 * Scale), Mass |-> 90])
         /\ ~CanConsumeEntity(100, 90)
         /\ ~CanConsumeEntity(90, 100)

\* a move tick has found two overlapping circles of different players: the
\* heavier may consume the lighter, the lighter may not consume the heavier
C13_OneDirectionOnly ==
    /\ last.op = "MoveAllPlayers"
    /\ \E k \in 1..Len(last.computed) :
          /\ NamesOtherCircle(k)
          /\ \A j \in 1..Len(last.computed) :
                ~(/\ last.computed[j].ConsumerEntityID = last.computed[k].ConsumedEntityID
                  /\ last.computed[j].ConsumedEntityID = last.computed[k].ConsumerEntityID)

\* C14: destroying an entity removes its Food row, its Circle row and its
\* Entity row, so that after any operation every Circle row and every Food
\* row names, in its entity_id column, an entity that exists.
C14_RowsReferenceExistingEntities ==
    /\ DOMAIN circle \subseteq DOMAIN entity
    /\ DOMAIN food \subseteq DOMAIN entity
    /\ DOMAIN circle \cap DOMAIN food = {}
    /\ \A id \in DOMAIN circle : circle[id].EntityID \in DOMAIN entity
    /\ \A id \in DOMAIN food : food[id].EntityID \in DOMAIN entity

\* C15: a decay tick gives every circle whose mass is greater than the
\* configured start mass the mass floor(0.99 * mass), strictly smaller than
\* before, and leaves a circle at or below the configured start mass as it is.
C15_DecayAboveConfiguredStartMass ==
    [][CircleDecayReducer =>
         \A id \in DOMAIN circle :
            IF entity[id].Mass > globalConfig.StartPlayerMass
            THEN /\ entity'[id].Mass = (entity[id].Mass * 99) \div 100
                 /\ entity'[id].Mass < entity[id].Mass
            ELSE entity'[id].Mass = entity[id].Mass]_vars

ClampedIntoWorld ==
    LET radius == last.computed[2]
        worldSize == last.computed[3] * Scale
        result == last.computed[4]
    IN /\ radius <= result.X /\ result.X <= worldSize - radius
       /\ radius <= result.Y /\ result.Y <= worldSize - radius

\* C17 as stated: ClampPositionToWorld(p, radius, worldSize) returns a
\* position with both coordinates in [radius, worldSize - radius], for every
\* input position p.
C17_ClampedIntoWorld ==
    last.op = "ClampPositionToWorld" => ClampedIntoWorld

\* C17: ClampPositionToWorld(p, radius, worldSize) returns a position with
\* both coordinates in [radius, worldSize - radius], for every input position
\* p, whenever the radius is at most half the world size.
C17_ClampedIntoWorldThatFits ==
    (/\ last.op = "ClampPositionToWorld"
     /\ 2 * last.computed[2] <= last.computed[3] * Scale) => ClampedIntoWorld

\* a negative and a far out-of-range coordinate clamped, for a radius that
\* fits the world
C17_FarOutClamped ==
    /\ last.op = "ClampPositionToWorld"
    /\ 2 * last.computed[2] <= last.computed[3] * Scale
    /\ last.computed[1].X < 0
    /\ last.computed[1].Y > last.computed[3] * Scale
    /\ last.computed[4] = Vec(last.computed[2],
                              last.computed[3] * Scale - last.computed[2])

\* the pairs (A, B) the split physics of a move tick goes through, each with
\* the number of circles of its player
SplitPairs ==
    UNION { LET pc == GetCirclesByPlayer(circle, player[s].PlayerID)
            IN { <<pc[ij[1]], pc[ij[2]], Len(pc)>> :
                   ij \in {ij \in (1..Len(pc)) \X (1..Len(pc)) : ij[1] < ij[2]} }
          : s \in DOMAIN player }

\* the later of two timestamps
LaterOf(t1, t2) == IF t1 >= t2 THEN t1 ELSE t2

\* C18: in a move tick the gravity pull between two circles A and B of one
\* player is computed with timeSinceSplit = now - max(A.last_split_time,
\* B.last_split_time).
C18_GravityFromLaterSplit ==
    [][MoveAllPlayersReducer =>
         \A pr \in SplitPairs :
            PairGravity(pr[1], pr[2], pr[3], now) =
               CalculateGravityPull(entity[pr[1]], entity[pr[2]],
                   SecondsSince(now, LaterOf(circle[pr[1]].LastSplitTime,
                                             circle[pr[2]].LastSplitTime)),
                   pr[3])]_vars

\* gravity applies to the pair pr in the tick at now: inside the pull window
\* and farther apart than the radius sum
GravityApplies(pr) ==
    LET timeSinceSplit == SecondsSince(now, circle[pr[1]].LastSplitTime)
        d == SplitDiff(entity[pr[1]], entity[pr[2]])
        radiusSum == MassToRadius(entity[pr[1]].Mass) + MassToRadius(entity[pr[2]].Mass)
    IN /\ globalConfig.SplitRecombineDelaySec - timeSinceSplit
             <= globalConfig.SplitGravPullBeforeRecombineSec
       /\ d.distanceSqr > radiusSum * radiusSum

\* |radiusSum - distance| * gravityMultiplier * selfCollisionSpeed /
\* circleCount for the pair pr, selfCollisionSpeed the configured value
FullGravityMagnitude(pr) ==
    LET timeSinceSplit == SecondsSince(now, circle[pr[1]].LastSplitTime)
        remaining == globalConfig.SplitRecombineDelaySec - timeSinceSplit
        timeBeforeRecombining == IF remaining > 0 THEN remaining ELSE 0
        gravityMultiplier ==
            Scale - FDiv(timeBeforeRecombining * Scale,
                         globalConfig.SplitGravPullBeforeRecombineSec)
        d == SplitDiff(entity[pr[1]], entity[pr[2]])
        radiusSum == MassToRadius(entity[pr[1]].Mass) + MassToRadius(entity[pr[2]].Mass)
    IN FDiv(FMul(FMul(Abs(radiusSum - Sqrt(d.distanceSqr)), gravityMultiplier),
                 globalConfig.SelfCollisionSpeed) * Scale,
            pr[3] * Scale)

\* C19: when gravity applies to a pair, the gravity contribution added to
\* each circle's movement vector has magnitude exactly half of
\* |radiusSum - distance| * gravityMultiplier * selfCollisionSpeed /
\* circleCount.
C19_GravityHalved ==
    [][MoveAllPlayersReducer =>
         \A pr \in SplitPairs :
            GravityApplies(pr) =>
              LET f == PairForces(pr[1], pr[2], pr[3], now)
              IN /\ Magnitude(f.forceA) = FullGravityMagnitude(pr) \div 2
                 /\ Magnitude(f.forceB) = FullGravityMagnitude(pr) \div 2]_vars

\* C20: for every pair (A, B) of one player's circles the split-physics
\* vector added to A's movement is the exact negative of the one added to
\* B's, so the two add up to no movement.
C20_ForcesOpposite ==
    [][MoveAllPlayersReducer =>
         \A pr \in SplitPairs :
            LET f == PairForces(pr[1], pr[2], pr[3], now)
            IN /\ f.forceA = Vec(-f.forceB.X, -f.forceB.Y)
               /\ VecAdd(f.forceA, f.forceB) = Zero]_vars

\* a tick has moved the two circles of a player, of equal mass, by the same
\* distance in opposite directions
C20_MovedApart ==
    /\ last.op = "MoveAllPlayers"
    /\ DOMAIN circle = {1, 2}
    /\ entity[1].Mass = entity[2].Mass
    /\ entity[1].Position.X # 50 * Scale
    /\ \E x \in PhysicsXs :
          entity[1].Position.X - 50 * Scale = x - entity[2].Position.X

\* the times since a split a tick at now can see, and the 1.0 s of the test
SplitAges ==
    {SecondsSince(now, circle[id].LastSplitTime) : id \in DOMAIN circle} \cup {Scale}

\* timeRemaining = max(splitRecombineDelay - timeSinceSplit, 0) exceeds the
\* gravity pull window
TooEarlyForGravity(timeSinceSplit) ==
    LET remaining == globalConfig.SplitRecombineDelaySec - timeSinceSplit
    IN (IF remaining > 0 THEN remaining ELSE 0)
          > globalConfig.SplitGravPullBeforeRecombineSec

\* C21: the gravity pull between two circles is the zero vector whenever
\* timeRemaining = max(splitRecombineDelay - timeSinceSplit, 0) exceeds the
\* gravity pull window, whatever the positions and masses.
C21_NoGravityBeforeWindow ==
    /\ \A a \in DOMAIN circle, b \in DOMAIN circle, t \in SplitAges :
          TooEarlyForGravity(t) =>
             CalculateGravityPull(entity[a], entity[b], t, 2) = Zero
    /\ \A pr \in SplitPairs :
          TooEarlyForGravity(SecondsSince(now, circle[pr[1]].LastSplitTime)) =>
             PairGravity(pr[1], pr[2], pr[3], now) = Zero

\* a tick too early for gravity has left two circles that are farther apart
\* than their radius sum where they were
C21_LeftApart ==
    /\ last.op = "MoveAllPlayers"
    /\ DOMAIN circle = {1, 2}
    /\ TooEarlyForGravity(SecondsSince(now, circle[1].LastSplitTime))
    /\ entity[1].Position = Vec(50 * Scale, 50 * Scale)
    /\ entity[2].Position = Vec(70 * Scale, 50 * Scale)

\* the squared distance between the centers of a and b, in squared steps
CenterDistanceSq(a, b) ==
    (a.Position.X - b.Position.X) * (a.Position.X - b.Position.X)
      + (a.Position.Y - b.Position.Y) * (a.Position.Y - b.Position.Y)

\* ((radius(a) + radius(b)) * (1 - minOverlapPctToConsume))^2
OverlapThreshold(a, b) ==
    LET reach == ((MassToRadius(a.Mass) + MassToRadius(b.Mass))
                    * (Scale - globalConfig.MinOverlapPctToConsume)) \div Scale
    IN reach * reach

\* an entity of the tests: mass 25, radius 5
TestEntity(x, y) == [Position |-> Vec(x * Scale, y * Scale), Mass |-> 25]

\* C22: IsOverlapping(a, b) is true if and only if the squared distance
\* between the centers is at most ((radius(a) + radius(b)) * (1 -
\* minOverlapPctToConsume))^2; two circles of mass 25 placed 10 apart with
\* minOverlapPctToConsume = 0.1 are not overlapping (and 9 apart they are).
C22_OverlapIffWithinThreshold ==
    /\ \A a \in DOMAIN entity, b \in DOMAIN entity :
          IsOverlapping(entity[a], entity[b])
             <=> CenterDistanceSq(entity[a], entity[b])
                    <= OverlapThreshold(entity[a], entity[b])
    /\ globalConfig.MinOverlapPctToConsume = Scale \div 10 =>
          /\ ~IsOverlapping(TestEntity(0, 0), TestEntity(10, 0))
          /\ IsOverlapping(TestEntity(0, 0), TestEntity(9, 0))

\* after a tick one circle is within the threshold of a second and beyond
\* the threshold of a third
C22_NearAndFar ==
    /\ last.op = "MoveAllPlayers"
    /\ \E a \in DOMAIN entity, b \in DOMAIN entity, c \in DOMAIN entity :
          /\ a # b /\ a # c
          /\ entity[a].Position # entity[b].Position
          /\ IsOverlapping(entity[a], entity[b])
          /\ ~IsOverlapping(entity[a], entity[c])

\* C23: IsOverlapping is symmetric: IsOverlapping(a, b) equals
\* IsOverlapping(b, a) for all entities a and b.
C23_OverlapSymmetric ==
    \A a \in DOMAIN entity, b \in DOMAIN entity :
       IsOverlapping(entity[a], entity[b]) <=> IsOverlapping(entity[b], entity[a])

\* two entities of different mass overlap, at a distance at which two of
\* the smaller mass would not
C23_UnequalOverlap ==
    \E a \in DOMAIN entity, b \in DOMAIN entity :
       /\ last.op = "MoveAllPlayers"
       /\ entity[a].Mass < entity[b].Mass
       /\ IsOverlapping(entity[a], entity[b])
       /\ IsOverlapping(entity[b], entity[a])
       /\ ~IsOverlapping(entity[a], [entity[b] EXCEPT !.Mass = entity[a].Mass])

\* C24: FastCollisionFilter produces no false negative: every candidate c
\* other than the entity e itself with IsOverlapping(e, c) is in
\* FastCollisionFilter(e, candidates), and e itself never is.
C24_FilterKeepsOverlapping ==
    last.op = "FastCollisionFilter" =>
       /\ last.a \notin Range(last.computed)
       /\ \A c \in DOMAIN entity :
             (c # last.a /\ IsOverlapping(entity[last.a], entity[c]))
                => c \in Range(last.computed)

\* a call that returned an overlapping candidate and left out another one
C24_KeptOneDroppedOne ==
    /\ last.op = "FastCollisionFilter"
    /\ \E c \in Range(last.computed) :
          /\ entity[c].Position # entity[last.a].Position
          /\ IsOverlapping(entity[last.a], entity[c])
    /\ \E c \in DOMAIN entity : c # last.a /\ c \notin Range(last.computed)

\* C25: an invalid configuration is never installed: SetGlobalConfiguration
\* returns an error and leaves the global configuration unchanged whenever
\* validation fails, so every configuration a tick observes passes Validate.
C25_OnlyValidConfigurationInstalled ==
    [][/\ \A c \in OfferedConfigurations :
             (SetGlobalConfiguration(c) /\ ~Validate(c)) =>
                 /\ last'.result = "error"
                 /\ globalConfig' = globalConfig
       /\ Validate(globalConfig)
       /\ Validate(globalConfig')]_vars

\* an invalid configuration was turned down while circles were in play
C25_InvalidTurnedDown ==
    /\ last.op = "SetGlobalConfiguration"
    /\ last.result = "error"
    /\ DOMAIN circle # {}
    /\ globalConfig \in LoadedConfigurations

IsUnitVector(v) ==
    LET x == Abs(v.X)
        y == Abs(v.Y)
        inner == Vec(IF x > 0 THEN x - 1 ELSE 0, IF y > 0 THEN y - 1 ELSE 0)
        outer == Vec(x + 1, y + 1)
    IN /\ SqrMagnitude(inner) <= Scale * Scale
       /\ SqrMagnitude(outer) >= Scale * Scale

\* C27: after any sequence of spawns, splits and player input updates every
\* circle's speed lies in [0, 1] and its direction is finite: a unit vector or
\* the zero vector.
C27_SpeedAndDirectionBounded ==
    \A id \in DOMAIN circle :
       /\ circle[id].Speed >= 0
       /\ circle[id].Speed <= Scale
       /\ \/ circle[id].Direction = Zero
          \/ IsUnitVector(circle[id].Direction)

\* a player who split has sent a direction longer than one
C27_SteeredAfterSplit ==
    /\ last.op = "UpdatePlayerInput"
    /\ last.result = "ok"
    /\ Cardinality(DOMAIN circle) >= 2
    /\ \A id \in DOMAIN circle :
          circle[id].Speed = Scale /\ circle[id].Direction = Vec(600, -800)

\* C28: every food entity's mass lies in [FoodMassMin, FoodMassMax], when it
\* is spawned and after any sequence of ticks and events.
C28_FoodMassWithinRange ==
    \A id \in DOMAIN food :
       id \in DOMAIN entity =>
          /\ entity[id].Mass >= globalConfig.FoodMassMin
          /\ entity[id].Mass <= globalConfig.FoodMassMax

\* the circle a successful EnterGame or Respawn has just created
SpawnedAsConfigured(id) ==
    LET radius == MassToRadius(entity'[id].Mass)
    IN /\ id \in DOMAIN entity' /\ id \in DOMAIN circle'
       /\ entity'[id].Mass = globalConfig.StartPlayerMass
       /\ circle'[id].Direction = Vec(0, Scale)
       /\ circle'[id].Speed = 0
       /\ entity'[id].Position.X >= radius
       /\ entity'[id].Position.X <= WorldSize * Scale - radius
       /\ entity'[id].Position.Y >= radius
       /\ entity'[id].Position.Y <= WorldSize * Scale - radius

\* C29: a circle created by EnterGame or Respawn has mass equal to the
\* configured start mass, direction (0, 1), speed 0 and a position within
\* [radius, worldSize - radius] on both axes.
C29_SpawnedAtConfiguredStartMass ==
    [][\A s \in Identities, x \in SpawnCoords, y \in SpawnCoords :
          (/\ EnterGameReducer(s, x, y) \/ RespawnReducer(s, x, y)
           /\ last'.result = "ok")
          => SpawnedAsConfigured(nextEntityID)]_vars

\* C30: t.Sub(other) returns t - other when t is not earlier than other and
\* the zero duration when other is later than t; it never returns a
\* wrapped-around value.
C30_SubWithoutWrap ==
    last.op = "Timestamp.Sub" =>
       LET t == last.computed[1]
           other == last.computed[2]
           duration == last.computed[3]
       IN /\ t >= other => duration = t - other
          /\ other > t => duration = 0
          /\ duration <= t

\* Sub has been called with a later timestamp as its argument
C30_SubOfLater ==
    /\ last.op = "Timestamp.Sub"
    /\ last.computed[1] = 1000000
    /\ last.computed[2] = 2000000
    /\ last.computed[3] = 0

\* what Register has returned so far, in the order of the returns
Returned == goroutines.returned

\* the reducer most recently registered under name
MostRecent(name) ==
    LET under == SelectSeq(Returned, LAMBDA r : r.reducer.Name = name)
    IN under[Len(under)].reducer

\* C31: every Register call, also one made concurrently with others, returns
\* an id distinct from every id returned before; afterwards GetByID(id)
\* returns the reducer registered under that id and GetByName(name) the
\* reducer most recently registered under that name.
C31_RegisterDistinctAndFound ==
    [][/\ \A g \in Goroutines :
            RegisterReturn(g) =>
               \A i \in 1..Len(Returned) : Returned[i].id # goroutines.calls[g].id
       /\ \A i \in 1..Len(Returned) :
            GetByID(Returned[i].id) => last'.computed = <<Returned[i].reducer, TRUE>>
       /\ \A i \in 1..Len(Returned) :
            GetByName(Returned[i].reducer.Name)
               => last'.computed = <<MostRecent(Returned[i].reducer.Name), TRUE>>
      ]_vars

\* a name has been registered twice with different reducers, and is then
\* looked up
C31_LookedUpAfterTwo ==
    /\ last.op = "GetByName"
    /\ Len(Returned) = MaxRegistrations
    /\ Returned[1].reducer.Name = Returned[2].reducer.Name
    /\ Returned[1].reducer # Returned[2].reducer
    /\ last.computed = <<Returned[2].reducer, TRUE>>

\* C32: after any sequence of EnterGame, Respawn, PlayerSplit, Recombine and
\* Consume operations no player owns more than MaxCirclesPerPlayer circles.
C32_AtMostMaxCircles ==
    \A s \in DOMAIN player :
       Len(GetCirclesByPlayer(circle, player[s].PlayerID))
          <= globalConfig.MaxCirclesPerPlayer

\* C33: after any sequence of spawns, splits, consumes and decay ticks every
\* circle's mass is at least the start player mass.
C33_MassAtLeastStartMass ==
    \A id \in DOMAIN circle :
       id \in DOMAIN entity => entity[id].Mass >= globalConfig.StartPlayerMass

\* none of the sender's circles can split
NoCircleEligible(sender) ==
    /\ sender \in DOMAIN player
    /\ LET circles == GetCirclesByPlayer(circle, player[sender].PlayerID)
       IN \A i \in 1..Len(circles) :
             circles[i] \in DOMAIN entity =>
                ~CanPlayerSplit(entity[circles[i]].Mass, Len(circles))

\* C34: a PlayerSplit call in which no circle is eligible to split changes no
\* entity or circle row and schedules no Recombine event.
C34_NoSplitNoEffect ==
    [][\A s \in Identities :
          (NoCircleEligible(s) /\ PlayerSplitReducer(s))
          => /\ entity' = entity
             /\ circle' = circle
             /\ timers' = timers]_vars

\* C35: every invocation of the SpawnFood tick terminates, also when
\* InsertEntity or InsertFood fails for some or all attempts.
C35_SpawnFoodTerminates == InSpawnFoodLoop ~> ~InSpawnFoodLoop

\* C36: for every configuration accepted by Validate a move tick never
\* divides by zero when computing split-circle forces, so every circle
\* position it writes is finite.
C36_PositionsFinite ==
    \A id \in DOMAIN circle :
       id \in DOMAIN entity =>
          /\ entity[id].Position.X # NaN
          /\ entity[id].Position.Y # NaN

\* C37: HandleResult returns a value that already is a ReducerResult with its
\* success status unchanged: a SuccessResult stays a success, an ErrorResult
\* stays a failure with the same message.
C37_ReducerResultUnchanged ==
    last.op = "HandleResult" =>
       \A i \in 1..Len(last.computed) :
          LET result == last.computed[i][1]
              returned == last.computed[i][2]
          IN ImplementsReducerResult(result) =>
                /\ IsSuccess(returned) = IsSuccess(result)
                /\ returned.Message = result.Message

====
